---- MODULE Spec2Model ----
(***************************************************************************)
(* A model of the osmpbf readers: the framed blob readers (BlobReader,     *)
(* MmapBlobReader), the block decoder (decode_blob), the element reader    *)
(* (for_each, par_map_reduce) and the indexed reader.                      *)
(*                                                                         *)
(* Conventions.  A byte is scaled to 7 bits, a number in 0..127, and a     *)
(* stream is a sequence of bytes.  Option<T> is a sequence of length 0     *)
(* (None) or 1 (Some).                                                     *)
(* A u64/usize value is kept as its signed residue modulo 2^64: v >= 0 is  *)
(* the value v, v < 0 is the value 2^64 + v.                               *)
(***************************************************************************)
EXTENDS Integers, Sequences, FiniteSets, TLC

VARIABLES
    file,          \* the records and tail the stream was laid out from (ghost)
    stream,        \* the bytes of the input file
    under,         \* which reader was constructed over the stream
    reader,        \* BlobReader { reader (cursor of R), offset, last_blob_ok }
    mmap_reader,   \* MmapBlobReader { offset, last_blob_ok }
    ret,           \* the last call: operation, cursor it began at, fault, result
    first_err,     \* Option: kind of the first error next/next_header_skip_blob returned
    err_before,    \* first_err as it was when the last such call began
    blob_msg,      \* the fileformat::Blob handed to decode_blob
    phase,         \* ElementReader: "ready", "reducing" (par_map_reduce), "done"
    visited,       \* the elements the closure f was called with, in call order
    parts,         \* par_map_reduce: the items between map and reduce, in order
    index,         \* IndexedReader: Vec<BlobInfo>
    emitted,       \* the elements the last IndexedReader call handed to its callback
    filter,        \* the way filter of the last read_ways_and_deps call
    loaded,        \* the index entries whose blob the last call read, as they were (ghost)
    first_call,    \* Option: predicate and elements of the first read_ways_and_deps that returned Ok (ghost)
    main,          \* stats: the main thread: position, blobs left in iter, thread_id, stopped, nodes
    worker,        \* stats: each worker thread: position and what it holds
    kept,          \* Option: the first blob the BlobReader returned
    sought,        \* seek or blob_from_offset has been called on the reader
    msg,           \* what an iterator of block.rs / dense.rs / elements.rs / par_reader.rs walks
    iter,          \* the state of that iterator
    out,           \* the values its next has returned so far, in call order
    written,       \* the blocks written to the BlobWriter, in call order
    got,           \* the blobs a BlobReader returned from the written bytes
    builder,       \* BlockBuilder { block, string_map }
    made           \* the calls made on the builder with what they returned (ghost)

frameVars == <<file, stream, under, reader, mmap_reader, first_err, err_before>>

decodeVars == <<blob_msg>>

elemVars == <<phase, visited, parts>>

indexVars == <<index, emitted, filter, loaded>>

offsetVars == <<kept, sought>>

viewVars == <<msg, iter, out>>

writerVars == <<written, got>>

builderVars == <<builder, made>>

againVars == <<first_call>>

statsVars == <<main, worker>>

vars == <<frameVars, decodeVars, elemVars, indexVars, offsetVars, viewVars, writerVars,
          builderVars, againVars, statsVars, ret>>

-----------------------------------------------------------------------------
(* Bounds of the model.                                                    *)

MaxRecords == 2

-----------------------------------------------------------------------------
(* Program constants.                                                      *)

MAX_BLOB_HEADER_SIZE == 64 * 1024

MAX_BLOB_MESSAGE_SIZE == 32 * 1024 * 1024

-----------------------------------------------------------------------------
(* Option, errors and return values.                                       *)

\* let x = value; body
With(x, Body(_)) == Body(x)

None == <<>>

Some(x) == <<x>>

IsSome(o) == Len(o) = 1

InvalidHeaderSize == [kind |-> "InvalidHeaderSize"]

HeaderTooBig(size) == [kind |-> "HeaderTooBig", size |-> size]

MessageTooBig(size) == [kind |-> "MessageTooBig", size |-> size]

Empty == [kind |-> "Empty"]

new_protobuf_error(location) == [kind |-> "Protobuf", location |-> location]

IoError(io_kind) == [kind |-> "Io", io |-> io_kind]

-----------------------------------------------------------------------------
(* Unsigned arithmetic on signed residues.                                 *)

ULt(a, b) ==
    IF a >= 0
    THEN (b < 0 \/ a < b)
    ELSE (b < 0 /\ a < b)

\* x + y overflows u64: both are residues, y came from a cast of an i32.
UAddOverflows(x, y) == x >= 0 /\ y < 0 /\ x + y >= 0

Min(a, b) == IF a < b THEN a ELSE b

-----------------------------------------------------------------------------
(* The wire format, scaled: the messages of fileformat.proto are laid out  *)
(* with one byte per scalar field.                                         *)
(*   BlobHeader : <<type, datasize>> \o indexdata                          *)
(*                type 1 = "OSMHeader", 2 = "OSMData", 3 = another string; *)
(*                datasize is a signed byte (two's complement)             *)
(*   Blob       : <<>>  or  <<field, n>> \o n bytes                        *)
(*                field 1 = raw, 2 = zlib_data, 0 = another compression,   *)
(*                field 4 = raw_size with a one-byte value                 *)

BE32(n) == << n \div 16777216, (n \div 65536) % 256, (n \div 256) % 256, n % 256 >>

\* byteorder::BigEndian::read_u32
read_u32(b) == b[1] * 16777216 + b[2] * 65536 + b[3] * 256 + b[4]

SignedByte(b) == IF b < 64 THEN b ELSE b - 128

TypeString(t) ==
    CASE t = 1 -> "OSMHeader"
      [] t = 2 -> "OSMData"
      [] OTHER -> "other"

\* fileformat::BlobHeader::parse_from_reader / parse_from_bytes:
\* both required fields must be present and well formed.
ParseBlobHeader(h) ==
    IF Len(h) >= 2 /\ h[1] \in {1, 2, 3}
    THEN [ok |-> TRUE, type |-> TypeString(h[1]), datasize |-> SignedByte(h[2])]
    ELSE [ok |-> FALSE, type |-> "", datasize |-> 0]

\* A byte string kept by its length and its leading bytes; bytes past the
\* leading ones are padding.  cut_ok: the first MAX_BLOB_MESSAGE_SIZE bytes
\* end on a field boundary (only read when len is above that size).
Bytes(data) == [len |-> Len(data), data |-> data, cut_ok |-> FALSE]

NoBytes == Bytes(<<>>)

\* fileformat::Blob::parse_from_reader: no required field; a length-delimited
\* field must be complete and nothing may follow it.
ParseOneOf(p) ==
    IF Len(p) = 0
    THEN [ok |-> TRUE, has_raw |-> FALSE, raw |-> NoBytes,
          has_zlib_data |-> FALSE, zlib_data |-> NoBytes]
    ELSE IF Len(p) >= 2 /\ p[1] \in {0, 1, 2} /\ p[2] = Len(p) - 2
    THEN [ok |-> TRUE,
          has_raw |-> (p[1] = 1),
          raw |-> IF p[1] = 1 THEN Bytes(SubSeq(p, 3, Len(p))) ELSE NoBytes,
          has_zlib_data |-> (p[1] = 2),
          zlib_data |-> IF p[1] = 2 THEN Bytes(SubSeq(p, 3, Len(p))) ELSE NoBytes]
    ELSE [ok |-> FALSE, has_raw |-> FALSE, raw |-> NoBytes,
          has_zlib_data |-> FALSE, zlib_data |-> NoBytes]

\* The field raw_size (field 4 of the layout, one byte), where the message
\* holds it: after raw or before zlib_data, the order of the field numbers.
RawSizeField(p) ==
    IF Len(p) >= 2 /\ p[1] = 4
    THEN [has |-> TRUE, size |-> p[2], rest |-> SubSeq(p, 3, Len(p))]
    ELSE IF Len(p) >= 4 /\ p[1] = 1 /\ p[2] = Len(p) - 4 /\ p[Len(p) - 1] = 4
    THEN [has |-> TRUE, size |-> p[Len(p)], rest |-> SubSeq(p, 1, Len(p) - 2)]
    ELSE [has |-> FALSE, size |-> 0, rest |-> p]

ParseBlob(p) ==
    LET rs == RawSizeField(p)
        one == ParseOneOf(rs.rest)
    IN [ok |-> one.ok, has_raw |-> one.has_raw, raw |-> one.raw,
        has_zlib_data |-> one.has_zlib_data, zlib_data |-> one.zlib_data,
        has_raw_size |-> rs.has /\ one.ok, raw_size |-> IF one.ok THEN rs.size ELSE 0]

\* The bytes a Take adaptor of the given limit yields from position pos
\* (pos counts the bytes already consumed); a limit with a negative residue
\* is larger than any stream.
TakeFrom(s, pos, limit) ==
    IF pos >= Len(s) THEN <<>>
    ELSE IF limit < 0 THEN SubSeq(s, pos + 1, Len(s))
    ELSE SubSeq(s, pos + 1, Min(pos + limit, Len(s)))

-----------------------------------------------------------------------------
(* BlobReader (blob.rs).  The operators take the reader's state rd and     *)
(* return the new state with the returned value.                           *)

BlobReader_new == [reader |-> 0, offset |-> None, last_blob_ok |-> TRUE]

\* new_seekable that leaves the offset unset.
new_seekable_untracked == [reader |-> 0, offset |-> None, last_blob_ok |-> TRUE]

new_seekable == [reader |-> 0, offset |-> Some(0), last_blob_ok |-> TRUE]

OffsetAdd(offset, n) == IF IsSome(offset) THEN Some(offset[1] + n) ELSE None

\* read_blob_header that forgets to mark the reader failed on HeaderTooBig.
read_blob_header_keeps_ok(s, rd, fault) ==
    LET avail == Len(s) - rd.reader IN
    IF fault
    THEN [rd |-> [rd EXCEPT !.offset = None, !.last_blob_ok = FALSE],
          is |-> "Err", val |-> InvalidHeaderSize]
    ELSE IF avail < 4
    THEN [rd |-> [rd EXCEPT !.offset = None,
                            !.reader = IF avail > 0 THEN Len(s) ELSE rd.reader],
          is |-> "None", val |-> <<>>]
    ELSE
      LET header_size == read_u32(SubSeq(s, rd.reader + 1, rd.reader + 4))
          rd1 == [rd EXCEPT !.reader = rd.reader + 4,
                            !.offset = OffsetAdd(rd.offset, 4)]
      IN
      IF header_size >= MAX_BLOB_HEADER_SIZE
      THEN [rd |-> rd1, is |-> "Err", val |-> HeaderTooBig(header_size)]
      ELSE
        LET bytes == TakeFrom(s, rd1.reader, header_size)
            header == ParseBlobHeader(bytes)
            rd2 == [rd1 EXCEPT !.reader = rd1.reader + Len(bytes)]
        IN
        IF ~header.ok
        THEN [rd |-> [rd2 EXCEPT !.offset = None, !.last_blob_ok = FALSE],
              is |-> "Err", val |-> new_protobuf_error("blob header")]
        ELSE [rd |-> [rd2 EXCEPT !.offset = OffsetAdd(rd1.offset, header_size)],
              is |-> "Ok", val |-> header]

\* fault: the underlying read fails with an error other than UnexpectedEof.
read_blob_header(s, rd, fault) ==
    LET avail == Len(s) - rd.reader IN
    IF fault
    THEN [rd |-> [rd EXCEPT !.offset = None, !.last_blob_ok = FALSE],
          is |-> "Err", val |-> InvalidHeaderSize]
    ELSE IF avail < 4
    THEN [rd |-> [rd EXCEPT !.offset = None,
                            !.reader = IF avail > 0 THEN Len(s) ELSE rd.reader],
          is |-> "None", val |-> <<>>]
    ELSE
      LET header_size == read_u32(SubSeq(s, rd.reader + 1, rd.reader + 4))
          rd1 == [rd EXCEPT !.reader = rd.reader + 4,
                            !.offset = OffsetAdd(rd.offset, 4)]
      IN
      IF header_size >= MAX_BLOB_HEADER_SIZE
      THEN [rd |-> [rd1 EXCEPT !.last_blob_ok = FALSE],
            is |-> "Err", val |-> HeaderTooBig(header_size)]
      ELSE
        LET bytes == TakeFrom(s, rd1.reader, header_size)
            header == ParseBlobHeader(bytes)
            rd2 == [rd1 EXCEPT !.reader = rd1.reader + Len(bytes)]
        IN
        IF ~header.ok
        THEN [rd |-> [rd2 EXCEPT !.offset = None, !.last_blob_ok = FALSE],
              is |-> "Err", val |-> new_protobuf_error("blob header")]
        ELSE [rd |-> [rd2 EXCEPT !.offset = OffsetAdd(rd1.offset, header_size)],
              is |-> "Ok", val |-> header]

\* overflow_checks: the build panics on an arithmetic overflow (debug
\* profile) instead of wrapping (release profile).
BlobReader_next(s, rd, fault, overflow_checks) ==
    IF ~rd.last_blob_ok
    THEN [rd |-> rd, is |-> "None", val |-> <<>>]
    ELSE
      LET prev_offset == rd.offset
          h == read_blob_header(s, rd, fault)
      IN
      IF h.is # "Ok" THEN h
      ELSE
        LET header == h.val
            bytes == TakeFrom(s, h.rd.reader, header.datasize)
            blob == ParseBlob(bytes)
            rd1 == [h.rd EXCEPT !.reader = h.rd.reader + Len(bytes)]
        IN
        IF ~blob.ok
        THEN [rd |-> [rd1 EXCEPT !.offset = None, !.last_blob_ok = FALSE],
              is |-> "Err", val |-> new_protobuf_error("blob content")]
        ELSE IF IsSome(rd1.offset) /\ overflow_checks
                /\ UAddOverflows(rd1.offset[1], header.datasize)
        THEN [rd |-> rd1, is |-> "Panic", val |-> <<>>]
        ELSE [rd |-> [rd1 EXCEPT !.offset = OffsetAdd(rd1.offset, header.datasize)],
              is |-> "Ok",
              val |-> [header |-> header, blob |-> blob, offset |-> prev_offset]]

\* seek that moves the stream and keeps the offset it had.
seek_keeps_offset(rd, pos) ==
    [rd |-> [rd EXCEPT !.reader = pos], is |-> "Ok", val |-> <<>>]

\* Seek of the underlying stream: SeekFrom::Start never fails on a file,
\* also beyond its end; SeekFrom::Current fails on a negative position.
BlobReader_seek(rd, pos) ==
    [rd |-> [rd EXCEPT !.reader = pos, !.offset = Some(pos)],
     is |-> "Ok", val |-> <<>>]

seek_raw_current(rd, n) ==
    IF rd.reader + n < 0
    THEN [rd |-> [rd EXCEPT !.offset = None],
          is |-> "Err", val |-> IoError("InvalidInput")]
    ELSE [rd |-> [rd EXCEPT !.reader = rd.reader + n, !.offset = Some(rd.reader + n)],
          is |-> "Ok", val |-> rd.reader + n]

next_header_skip_blob(s, rd, fault) ==
    IF ~rd.last_blob_ok
    THEN [rd |-> rd, is |-> "None", val |-> <<>>]
    ELSE
      LET prev_offset == rd.offset
          h == read_blob_header(s, rd, fault)
      IN
      IF h.is # "Ok" THEN h
      ELSE
        LET sk == seek_raw_current(h.rd, h.val.datasize) IN
        IF sk.is = "Err"
        THEN [rd |-> [sk.rd EXCEPT !.last_blob_ok = FALSE],
              is |-> "Err", val |-> sk.val]
        ELSE [rd |-> sk.rd, is |-> "Ok",
              val |-> [header |-> h.val, offset |-> prev_offset]]

blob_from_offset(s, rd, pos, fault, overflow_checks) ==
    LET sk == BlobReader_seek(rd, pos)
        n == BlobReader_next(s, sk.rd, fault, overflow_checks)
    IN
    IF n.is = "None"
    THEN [rd |-> n.rd, is |-> "Err", val |-> IoError("UnexpectedEof")]
    ELSE n

-----------------------------------------------------------------------------
(* MmapBlobReader (mmap_blob.rs).                                          *)

MmapBlobReader_new == [offset |-> 0, last_blob_ok |-> TRUE]

MmapBlobReader_seek(mr, pos) == [mr EXCEPT !.offset = pos]

MmapBlobReader_next(s, mr, overflow_checks) ==
    IF ULt(Len(s), mr.offset)
    THEN [rd |-> mr, is |-> "Panic", val |-> <<>>]
    ELSE
      LET slice == SubSeq(s, mr.offset + 1, Len(s)) IN
      IF Len(slice) = 0
      THEN [rd |-> mr, is |-> "None", val |-> <<>>]
      ELSE IF Len(slice) <= 3
      THEN [rd |-> [mr EXCEPT !.last_blob_ok = FALSE],
            is |-> "Err", val |-> InvalidHeaderSize]
      ELSE
        LET header_size == read_u32(slice) IN
        IF header_size >= MAX_BLOB_HEADER_SIZE
        THEN [rd |-> [mr EXCEPT !.last_blob_ok = FALSE],
              is |-> "Err", val |-> HeaderTooBig(header_size)]
        ELSE IF Len(slice) < 4 + header_size
        THEN [rd |-> [mr EXCEPT !.last_blob_ok = FALSE],
              is |-> "Err", val |-> IoError("UnexpectedEof")]
        ELSE
          LET header == ParseBlobHeader(SubSeq(slice, 5, 4 + header_size)) IN
          IF ~header.ok
          THEN [rd |-> [mr EXCEPT !.last_blob_ok = FALSE],
                is |-> "Err", val |-> new_protobuf_error("blob header")]
          ELSE
            LET data_size == header.datasize
                chunk_size == 4 + header_size + data_size
            IN
            IF overflow_checks /\ UAddOverflows(4 + header_size, data_size)
            THEN [rd |-> mr, is |-> "Panic", val |-> <<>>]
            ELSE IF ULt(Len(slice), chunk_size)
            THEN [rd |-> [mr EXCEPT !.last_blob_ok = FALSE],
                  is |-> "Err", val |-> IoError("UnexpectedEof")]
            ELSE
              LET mr1 == [mr EXCEPT !.offset = mr.offset + chunk_size] IN
              IF chunk_size < 4 + header_size
              THEN [rd |-> mr1, is |-> "Panic", val |-> <<>>]
              ELSE [rd |-> mr1, is |-> "Ok",
                    val |-> [header |-> header,
                             data |-> SubSeq(slice, 5 + header_size, chunk_size),
                             offset |-> mr.offset]]

-----------------------------------------------------------------------------
(* Elements and blocks (osmformat.proto).  A block is its sequence of      *)
(* groups; a way keeps its refs delta-encoded.                             *)

Group(nodes, dense, ways, relations) ==
    [nodes |-> nodes, dense |-> dense, ways |-> ways, relations |-> relations]

WayMsg(id, refs, tag) == [id |-> id, refs |-> refs, tag |-> tag]

Elem(id) == [id |-> id]

\* The PrimitiveBlock messages the content bytes 1..5 stand for.
BlockTable ==
    << \* 1: dense nodes 1 and 2
       << Group(<<>>, <<Elem(1), Elem(2)>>, <<>>, <<>>) >>,
       \* 2: a closed way 10 over nodes 2, 1, 2 and a way 11 over nodes 2, 3
       << Group(<<>>, <<>>,
                <<WayMsg(10, <<2, -1, 1>>, "a"), WayMsg(11, <<2, 1>>, "b")>>, <<>>) >>,
       \* 3: sparse nodes 3 and 2
       << Group(<<Elem(3), Elem(2)>>, <<>>, <<>>, <<>>) >>,
       \* 4: a group of ways before a group of nodes
       << Group(<<>>, <<>>, <<WayMsg(12, <<3>>, "a")>>, <<>>),
          Group(<<Elem(4)>>, <<Elem(3)>>, <<>>, <<>>) >>,
       \* 5: a relation and a way without refs
       << Group(<<>>, <<>>, <<>>, <<Elem(20)>>),
          Group(<<>>, <<>>, <<WayMsg(13, <<>>, "b")>>, <<>>) >>
    >>

HeaderBlockByte == 100

\* T::parse_from_bytes / parse_from_reader for T in HeaderBlock, PrimitiveBlock.
\* An empty message is a HeaderBlock (no required field) and no PrimitiveBlock
\* (stringtable is required); the first byte tells the message.
parse_message(T, bs) ==
    IF bs.len = 0 \/ bs.data = <<>>
    THEN [ok |-> T = "HeaderBlock", msg |-> <<>>]
    ELSE IF bs.data[1] = HeaderBlockByte
    THEN [ok |-> T = "HeaderBlock", msg |-> <<>>]
    ELSE IF bs.data[1] \in DOMAIN BlockTable
    THEN [ok |-> T = "PrimitiveBlock", msg |-> BlockTable[bs.data[1]]]
    ELSE [ok |-> FALSE, msg |-> <<>>]

\* flate2::read::ZlibDecoder, as a stand-in codec: a stream is the marker 120,
\* a mode byte and the message bytes; the mode tells how far the output is
\* padded.  Anything else is a corrupt stream.
ZlibMarker == 120

InflatedLen(mode, n) ==
    CASE mode = 0 -> n
      [] mode = 1 -> MAX_BLOB_MESSAGE_SIZE - 1
      [] mode = 2 -> MAX_BLOB_MESSAGE_SIZE
      [] mode = 3 -> MAX_BLOB_MESSAGE_SIZE + 1
      [] OTHER -> MAX_BLOB_MESSAGE_SIZE + 2

ZlibDecoder(z) ==
    IF Len(z.data) >= 2 /\ z.data[1] = ZlibMarker
    THEN [ok |-> TRUE,
          out |-> [len |-> InflatedLen(z.data[2], Len(z.data) - 2),
                   data |-> SubSeq(z.data, 3, Len(z.data)),
                   cut_ok |-> z.data[2] = 4]]
    ELSE [ok |-> FALSE, out |-> NoBytes]

Deflate(m) == <<ZlibMarker, 0>> \o m

\* Read::take(limit) over a byte string, then a parse of what it yields:
\* a string longer than the limit is cut, and the cut parses only when it
\* falls on a field boundary.
parse_taken(T, bs, limit) ==
    IF bs.len <= limit
    THEN parse_message(T, bs)
    ELSE IF bs.cut_ok
    THEN parse_message(T, [bs EXCEPT !.len = limit])
    ELSE [ok |-> FALSE, msg |-> <<>>]

decode_blob(b, T) ==
    IF b.has_raw
    THEN LET size == b.raw.len IN
         IF size < MAX_BLOB_MESSAGE_SIZE
         THEN LET m == parse_message(T, b.raw) IN
              IF m.ok THEN [is |-> "Ok", val |-> m.msg]
              ELSE [is |-> "Err", val |-> new_protobuf_error("raw blob data")]
         ELSE [is |-> "Err", val |-> MessageTooBig(size)]
    ELSE IF b.has_zlib_data
    THEN LET decoder == ZlibDecoder(b.zlib_data)
             m == IF decoder.ok
                  THEN parse_taken(T, decoder.out, MAX_BLOB_MESSAGE_SIZE)
                  ELSE [ok |-> FALSE, msg |-> <<>>]
         IN
         IF m.ok THEN [is |-> "Ok", val |-> m.msg]
         ELSE [is |-> "Err", val |-> new_protobuf_error("blob zlib data")]
    ELSE [is |-> "Err", val |-> Empty]

-----------------------------------------------------------------------------
(* decode_blob on its own: every Blob message of DecodeBlobs, decoded to    *)
(* either message type.                                                    *)

NoBlob ==
    [has_raw |-> FALSE, raw |-> NoBytes, has_zlib_data |-> FALSE, zlib_data |-> NoBytes]

DecodeIdle == blob_msg = NoBlob

ElemIdle ==
    /\ phase = "idle"
    /\ visited = <<>>
    /\ parts = <<>>

OffsetsIdle == kept = None /\ sought = FALSE

ViewsIdle == msg = <<>> /\ iter = <<>> /\ out = <<>>

WriterIdle == written = <<>> /\ got = <<>>

BuilderIdle == builder = <<>> /\ made = <<>>

AgainIdle == first_call = <<>>

StatsIdle == main = <<>> /\ worker = <<>>

IndexIdle == index = <<>> /\ emitted = <<>> /\ filter = "none" /\ loaded = <<>>

MessageBytes == {<<1>>, <<4>>, <<HeaderBlockByte>>, <<77>>}

RawLens ==
    {1, 2, MAX_BLOB_MESSAGE_SIZE - 1, MAX_BLOB_MESSAGE_SIZE, MAX_BLOB_MESSAGE_SIZE + 1}

RawStrings ==
    {NoBytes} \cup { [len |-> n, data |-> m, cut_ok |-> FALSE] : n \in RawLens, m \in MessageBytes }

ZlibStrings ==
    {NoBytes, Bytes(<<5, 0, 1>>)}
        \cup { Bytes(<<ZlibMarker, mode>> \o m) : mode \in 0..4, m \in MessageBytes }

DecodeBlobs ==
    { [has_raw |-> TRUE, raw |-> r, has_zlib_data |-> FALSE, zlib_data |-> NoBytes] :
        r \in RawStrings }
    \cup
    { [has_raw |-> FALSE, raw |-> NoBytes, has_zlib_data |-> TRUE, zlib_data |-> z] :
        z \in ZlibStrings }
    \cup
    { [has_raw |-> TRUE, raw |-> r, has_zlib_data |-> TRUE, zlib_data |-> z] :
        r \in {rr \in RawStrings : rr.len >= MAX_BLOB_MESSAGE_SIZE},
        z \in {Bytes(<<ZlibMarker, 0, 1>>)} }
    \cup {NoBlob}

\* The size of the payload decode_blob is handed: the raw bytes, or the
\* zlib_data after decompression.
PayloadSize(b) ==
    IF b.has_raw THEN b.raw.len
    ELSE IF b.has_zlib_data /\ ZlibDecoder(b.zlib_data).ok
    THEN ZlibDecoder(b.zlib_data).out.len
    ELSE 0

FrameIdle ==
    /\ file = [recs |-> <<>>, tail |-> 0]
    /\ stream = <<>>
    /\ under = "none"
    /\ reader = [reader |-> 0, offset |-> None, last_blob_ok |-> TRUE]
    /\ mmap_reader = [offset |-> 0, last_blob_ok |-> TRUE]
    /\ first_err = None
    /\ err_before = None

InitDecode ==
    /\ blob_msg \in DecodeBlobs
    /\ ret = [op |-> "new", at |-> 0, fault |-> FALSE, is |-> "Ok", val |-> <<>>]
    /\ FrameIdle
    /\ StatsIdle
    /\ AgainIdle
    /\ BuilderIdle
    /\ WriterIdle
    /\ ViewsIdle
    /\ OffsetsIdle
    /\ ElemIdle
    /\ IndexIdle

\* Blob::to_headerblock
ToHeaderBlock ==
    /\ LET r == decode_blob(blob_msg, "HeaderBlock") IN
       ret' = [op |-> "to_headerblock", at |-> 0, fault |-> FALSE,
               is |-> r.is, val |-> r.val]
    /\ UNCHANGED <<frameVars, decodeVars, elemVars, indexVars, offsetVars, viewVars, writerVars, builderVars, againVars, statsVars>>

\* Blob::to_primitiveblock
ToPrimitiveBlock ==
    /\ LET r == decode_blob(blob_msg, "PrimitiveBlock") IN
       ret' = [op |-> "to_primitiveblock", at |-> 0, fault |-> FALSE,
               is |-> r.is, val |-> r.val]
    /\ UNCHANGED <<frameVars, decodeVars, elemVars, indexVars, offsetVars, viewVars, writerVars, builderVars, againVars, statsVars>>

NextDecode ==
    \/ ToHeaderBlock
    \/ ToPrimitiveBlock

SpecDecode == InitDecode /\ [][NextDecode]_vars

DecodeOps == {"to_headerblock", "to_primitiveblock"}

\* C9: decoding a blob whose payload is 32 MiB or larger, as raw bytes or as
\* zlib_data after decompression, fails with MessageTooBig{size}; it never
\* returns a parsed block and never a Protobuf error.
C9_TooBigFails ==
    (ret.op \in DecodeOps /\ PayloadSize(blob_msg) >= 33554432)
        => (ret.is = "Err" /\ ret.val = MessageTooBig(PayloadSize(blob_msg)))

-----------------------------------------------------------------------------
(* Input files: a sequence of records followed by 0..3 stray bytes.        *)

RawPayload(c) == <<1, Len(c)>> \o c

Record(t, payload) == BE32(2) \o <<t, Len(payload)>> \o payload

HeaderRecord == Record(1, RawPayload(<<100>>))

DataRecord == Record(2, RawPayload(<<1>>))

UnknownRecord == Record(3, <<>>)

\* header_size = 65536
TooBigRecord == BE32(MAX_BLOB_HEADER_SIZE)

\* the type field of the header is malformed
BadHeaderRecord == BE32(2) \o <<9, 0>>

\* the Blob message is malformed
BadBlobRecord == Record(2, <<7, 0>>)

\* datasize = -1
NegativeSizeRecord == BE32(2) \o <<2, 127>> \o RawPayload(<<1>>)

\* datasize announces two bytes more than the record holds
ShortRecord == BE32(2) \o <<2, 5>> \o RawPayload(<<1>>)

FrameRecords ==
    { HeaderRecord, DataRecord, UnknownRecord, TooBigRecord, BadHeaderRecord,
      BadBlobRecord, NegativeSizeRecord, ShortRecord }

TailLens == {0, 1, 2, 3}

RECURSIVE Concat(_)
Concat(ss) == IF ss = <<>> THEN <<>> ELSE Head(ss) \o Concat(Tail(ss))

SeqsUpTo(S, n) == UNION { [1..k -> S] : k \in 0..n }

Layout(f) == Concat(f.recs) \o [i \in 1..f.tail |-> 0]

FrameFiles == [recs : SeqsUpTo(FrameRecords, MaxRecords), tail : TailLens]

\* The offsets at which the records of the file start, and its end.
RECURSIVE RecordOffsets(_, _)
RecordOffsets(recs, from) ==
    IF recs = <<>> THEN <<from>>
    ELSE <<from>> \o RecordOffsets(Tail(recs), from + Len(Head(recs)))

-----------------------------------------------------------------------------
(* The framed readers under test.                                          *)

Readers == {"BlobReader::new", "BlobReader::new_seekable", "MmapBlobReader::new"}

IsBlobReader == under \in {"BlobReader::new", "BlobReader::new_seekable"}

Init ==
    /\ file \in FrameFiles
    /\ stream = Layout(file)
    /\ under \in Readers
    /\ reader = IF under = "BlobReader::new_seekable" THEN new_seekable ELSE BlobReader_new
    /\ mmap_reader = MmapBlobReader_new
    /\ ret = [op |-> "new", at |-> 0, fault |-> FALSE, is |-> "Ok", val |-> <<>>]
    /\ first_err = None
    /\ err_before = None
    /\ DecodeIdle
    /\ StatsIdle
    /\ AgainIdle
    /\ BuilderIdle
    /\ WriterIdle
    /\ ViewsIdle
    /\ OffsetsIdle
    /\ ElemIdle
    /\ IndexIdle

Returned(op, at, fault, r) ==
    [op |-> op, at |-> at, fault |-> fault, is |-> r.is, val |-> r.val]

ErrorKind(r) == IF r.is = "Err" THEN Some(r.val.kind) ELSE None

\* BlobReader::next
NextBlob ==
    /\ IsBlobReader
    /\ \E fault \in BOOLEAN, overflow_checks \in BOOLEAN :
         LET r == BlobReader_next(stream, reader, fault, overflow_checks) IN
         /\ reader' = r.rd
         /\ ret' = Returned("next", reader.reader, fault, r)
         /\ first_err' = IF IsSome(first_err) THEN first_err ELSE ErrorKind(r)
         /\ err_before' = first_err
    /\ UNCHANGED <<file, stream, under, mmap_reader, decodeVars, elemVars, indexVars, offsetVars, viewVars, writerVars, builderVars, againVars, statsVars>>

\* BlobReader::next_header_skip_blob
NextHeaderSkipBlob ==
    /\ under = "BlobReader::new_seekable"
    /\ \E fault \in BOOLEAN :
         LET r == next_header_skip_blob(stream, reader, fault) IN
         /\ reader' = r.rd
         /\ ret' = Returned("next_header_skip_blob", reader.reader, fault, r)
         /\ first_err' = IF IsSome(first_err) THEN first_err ELSE ErrorKind(r)
         /\ err_before' = first_err
    /\ UNCHANGED <<file, stream, under, mmap_reader, decodeVars, elemVars, indexVars, offsetVars, viewVars, writerVars, builderVars, againVars, statsVars>>

\* Seek targets: the start of every record, the end of the stream, a position
\* inside the first record and a position beyond the end.
SeekTargets ==
    { RecordOffsets(file.recs, 0)[i] : i \in 1..(Len(file.recs) + 1) }
        \cup {1, Len(stream), Len(stream) + 1}

\* BlobReader::seek
Seek ==
    /\ under = "BlobReader::new_seekable"
    /\ \E pos \in SeekTargets :
         LET r == BlobReader_seek(reader, pos) IN
         /\ reader' = r.rd
         /\ ret' = Returned("seek", 0, FALSE, r)
    /\ UNCHANGED <<file, stream, under, mmap_reader, first_err, err_before, decodeVars, elemVars, indexVars, offsetVars, viewVars, writerVars, builderVars, againVars, statsVars>>

\* MmapBlobReader::next
MmapNext ==
    /\ under = "MmapBlobReader::new"
    /\ \E overflow_checks \in BOOLEAN :
         LET r == MmapBlobReader_next(stream, mmap_reader, overflow_checks) IN
         /\ mmap_reader' = r.rd
         /\ ret' = Returned("next", mmap_reader.offset, FALSE, r)
         /\ first_err' = IF IsSome(first_err) THEN first_err ELSE ErrorKind(r)
         /\ err_before' = first_err
    /\ UNCHANGED <<file, stream, under, reader, decodeVars, elemVars, indexVars, offsetVars, viewVars, writerVars, builderVars, againVars, statsVars>>

\* MmapBlobReader::seek
MmapSeek ==
    /\ under = "MmapBlobReader::new"
    /\ \E pos \in SeekTargets :
         /\ mmap_reader' = MmapBlobReader_seek(mmap_reader, pos)
         /\ ret' = [op |-> "seek", at |-> 0, fault |-> FALSE,
                     is |-> "Ok", val |-> <<>>]
    /\ UNCHANGED <<file, stream, under, reader, first_err, err_before, decodeVars, elemVars, indexVars, offsetVars, viewVars, writerVars, builderVars, againVars, statsVars>>

Next ==
    \/ NextBlob
    \/ NextHeaderSkipBlob
    \/ Seek
    \/ MmapNext
    \/ MmapSeek

Spec == Init /\ [][Next]_vars

-----------------------------------------------------------------------------
(* Properties of the framed readers.                                       *)

NextOps == {"next", "next_header_skip_blob"}

\* The bytes left in the stream when the last call began.
Remaining == Len(stream) - ret.at

\* The header_size the last call decoded (when at least 4 bytes were left).
HeaderSizeAtCall == read_u32(SubSeq(stream, ret.at + 1, ret.at + 4))

\* C1: once BlobReader::next or BlobReader::next_header_skip_blob has
\* returned an error, every later call of next or next_header_skip_blob on
\* that reader returns None, never another blob or error.
C1_TerminalAfterError ==
    (IsBlobReader /\ ret.op \in NextOps /\ IsSome(err_before))
        => ret.is = "None"

\* A call after an error returned None although a whole header size was left
\* to read at the cursor.
C1_Witness ==
    /\ IsBlobReader
    /\ ret.op \in NextOps
    /\ IsSome(err_before)
    /\ ret.is = "None"
    /\ Remaining >= 4

\* C8: when the 4-byte big-endian header_size of a record is >= 65536,
\* BlobReader and MmapBlobReader return HeaderTooBig{size} with size the
\* decoded value, and no later call on that reader yields a blob.
C8_HeaderTooBigEndsReader ==
    /\ ( /\ ret.op \in NextOps
         /\ ~ret.fault
         /\ (IsBlobReader => err_before = None)
         /\ Remaining >= 4
         /\ ret.at >= 0
         /\ HeaderSizeAtCall >= 65536 )
       => (ret.is = "Err" /\ ret.val = HeaderTooBig(HeaderSizeAtCall))
    /\ (ret.op \in NextOps /\ err_before = Some("HeaderTooBig"))
       => ret.is # "Ok"

\* C10: BlobReader::next ends iteration cleanly when zero bytes remain where
\* a header size is expected, and fails with InvalidHeaderSize when exactly
\* 1, 2 or 3 bytes remain.
C10_ShortHeaderSize ==
    (IsBlobReader /\ ret.op = "next" /\ ~ret.fault /\ err_before = None)
        => /\ (Remaining = 0 => (ret.is = "None" /\ reader.last_blob_ok))
           /\ (Remaining \in {1, 2, 3}
                 => (ret.is = "Err" /\ ret.val = InvalidHeaderSize))

\* C28: for every map, every datasize a header declares and every cursor
\* set by seek, positions beyond the end of the map included,
\* MmapBlobReader::next returns None, an error, or a blob whose data are the
\* datasize bytes that follow its header inside the map; it never overflows
\* and never indexes outside the map (no panic).
C28_MmapNextInBounds ==
    (under = "MmapBlobReader::new" /\ ret.op = "next") =>
      /\ ret.is \in {"None", "Err", "Ok"}
      /\ ret.is = "Ok" =>
           LET header_size == read_u32(SubSeq(stream, ret.at + 1, ret.at + 4))
               datasize == ret.val.header.datasize
           IN /\ datasize >= 0
              /\ ret.at + 4 + header_size + datasize <= Len(stream)
              /\ ret.val.data = SubSeq(stream, ret.at + 4 + header_size + 1,
                                       ret.at + 4 + header_size + datasize)

\* C11: once MmapBlobReader::next has returned an error, every later call
\* of next on that reader returns None.
C11_MmapTerminalAfterError ==
    (under = "MmapBlobReader::new" /\ ret.op = "next" /\ IsSome(err_before))
        => ret.is = "None"

-----------------------------------------------------------------------------
(* BlobReader over a seekable stream: offsets, seek and blob_from_offset.  *)

OffsetRecords ==
    { HeaderRecord, DataRecord, NegativeSizeRecord, ShortRecord }

OffsetTails == {0, 2}

OffsetFiles == [recs : SeqsUpTo(OffsetRecords, MaxRecords), tail : OffsetTails]

InitOffsets ==
    /\ file \in OffsetFiles
    /\ stream = Layout(file)
    /\ under \in {"BlobReader::new", "BlobReader::new_seekable"}
    /\ reader = IF under = "BlobReader::new_seekable" THEN new_seekable ELSE BlobReader_new
    /\ mmap_reader = MmapBlobReader_new
    /\ ret = [op |-> "new", at |-> 0, fault |-> FALSE, is |-> "Ok", val |-> <<>>]
    /\ first_err = None
    /\ err_before = None
    /\ kept = None
    /\ sought = FALSE
    /\ DecodeIdle
    /\ StatsIdle
    /\ AgainIdle
    /\ BuilderIdle
    /\ WriterIdle
    /\ ViewsIdle
    /\ ElemIdle
    /\ IndexIdle

\* The first blob the reader returned is kept by the caller, with the
\* position of the cursor after the call that returned it.
Keeping(r) ==
    IF kept = None /\ r.is = "Ok"
    THEN Some([blob |-> r.val, next_at |-> r.rd.reader])
    ELSE kept

\* The error of a call of next; the UnexpectedEof that blob_from_offset puts
\* in the place of None is not an error of the reader.
ReaderError(r) ==
    IF r.is = "Err" /\ r.val.kind # "Io" THEN Some(r.val.kind) ELSE None

\* BlobReader::next on a stream that is Read + Seek
ReadNext ==
    /\ \E fault \in BOOLEAN, overflow_checks \in BOOLEAN :
         With(BlobReader_next(stream, reader, fault, overflow_checks), LAMBDA r :
           /\ reader' = r.rd
           /\ ret' = Returned("next", reader.reader, fault, r)
           /\ first_err' = IF IsSome(first_err) THEN first_err ELSE ReaderError(r)
           /\ err_before' = first_err
           /\ kept' = Keeping(r))
    /\ UNCHANGED <<file, stream, under, mmap_reader, sought, decodeVars, elemVars, indexVars, viewVars, writerVars, builderVars, againVars, statsVars>>

\* BlobReader::seek
SeekTo ==
    /\ \E pos \in SeekTargets :
         With(BlobReader_seek(reader, pos), LAMBDA r :
           /\ reader' = r.rd
           /\ ret' = Returned("seek", pos, FALSE, r))
    /\ sought' = TRUE
    /\ UNCHANGED <<file, stream, under, mmap_reader, first_err, err_before, kept,
                   decodeVars, elemVars, indexVars, viewVars, writerVars, builderVars, againVars, statsVars>>

\* BlobReader::blob_from_offset
BlobFromOffset ==
    /\ \E pos \in SeekTargets, fault \in BOOLEAN, overflow_checks \in BOOLEAN :
         With(blob_from_offset(stream, reader, pos, fault, overflow_checks), LAMBDA r :
           /\ reader' = r.rd
           /\ ret' = Returned("blob_from_offset", pos, fault, r)
           /\ first_err' = IF IsSome(first_err) THEN first_err ELSE ReaderError(r)
           /\ err_before' = first_err
           /\ kept' = Keeping(r))
    /\ sought' = TRUE
    /\ UNCHANGED <<file, stream, under, mmap_reader, decodeVars, elemVars, indexVars, viewVars, writerVars, builderVars, againVars, statsVars>>

NextOffsets ==
    \/ ReadNext
    \/ SeekTo
    \/ BlobFromOffset

SpecOffsets == InitOffsets /\ [][NextOffsets]_vars

-----------------------------------------------------------------------------
(* Properties of offsets and re-reads.                                     *)

ReadOps == {"next", "blob_from_offset"}

\* The position at which the k-th record starts when every record before it
\* is as long as it declares: 4 + header_size + datasize.
RECURSIVE DeclaredStart(_, _)
DeclaredStart(s, k) ==
    IF k = 1 THEN Some(0)
    ELSE With(DeclaredStart(s, k - 1), LAMBDA p :
           IF p = None \/ p[1] < 0 \/ p[1] + 4 > Len(s) THEN None
           ELSE With(read_u32(SubSeq(s, p[1] + 1, p[1] + 4)), LAMBDA hs :
                  IF p[1] + 4 + hs > Len(s) THEN None
                  ELSE With(ParseBlobHeader(SubSeq(s, p[1] + 5, p[1] + 4 + hs)), LAMBDA h :
                         IF h.ok THEN Some(p[1] + 4 + hs + h.datasize) ELSE None)))

\* The header of the record at position at, when it is whole and well formed.
HeaderAt(s, at) ==
    IF at < 0 \/ at + 4 > Len(s) THEN None
    ELSE With(read_u32(SubSeq(s, at + 1, at + 4)), LAMBDA hs :
           IF at + 4 + hs > Len(s) THEN None
           ELSE With(ParseBlobHeader(SubSeq(s, at + 5, at + 4 + hs)), LAMBDA h :
                  IF h.ok THEN Some([header_size |-> hs, datasize |-> h.datasize])
                  ELSE None))

\* The bytes a record of that header declares.
DeclaredLen(h) == 4 + h.header_size + h.datasize

\* The record at position at is whole: its datasize is not negative and the
\* stream holds all the bytes it declares.
WholeAt(s, at) ==
    /\ IsSome(HeaderAt(s, at))
    /\ HeaderAt(s, at)[1].datasize >= 0
    /\ at + DeclaredLen(HeaderAt(s, at)[1]) <= Len(s)

\* The reader keeps an offset: it was made by new_seekable, or seek or
\* blob_from_offset has been called on it.
Tracking == under = "BlobReader::new_seekable" \/ sought

\* C12 as stated: a blob returned from the position where the k-th record
\* starts (the sum of 4 + header_size + datasize over the records before it)
\* carries that position as its offset when the reader was made by
\* new_seekable, and a reader made by BlobReader::new returns every blob with
\* offset None.
C12_OffsetIsSumOfSizes ==
    (ret.op \in ReadOps /\ ret.is = "Ok")
        => /\ under = "BlobReader::new_seekable"
                => \A k \in 1..(MaxRecords + 1) :
                     DeclaredStart(stream, k) = Some(ret.at)
                         => ret.val.offset = Some(ret.at)
           /\ under = "BlobReader::new" => ret.val.offset = None

\* C12 amended: a blob returned from the position where the k-th record
\* starts carries that position, the sum of 4 + header_size + datasize over
\* the records before it, as its offset when the reader was made by
\* new_seekable or has been sought; a reader made by BlobReader::new returns
\* every blob with offset None until seek or blob_from_offset is called.
C12_OffsetTracked ==
    (ret.op \in ReadOps /\ ret.is = "Ok")
        => /\ Tracking
                => /\ ret.val.offset = Some(ret.at)
                   /\ \A k \in 1..(MaxRecords + 1) :
                        DeclaredStart(stream, k) = Some(ret.at)
                            => ret.val.offset = DeclaredStart(stream, k)
           /\ ~Tracking => ret.val.offset = None

\* The second record of the stream is returned by next with its offset on a
\* reader that BlobReader::new made and that was sought.
C12_Witness ==
    /\ under = "BlobReader::new"
    /\ sought
    /\ ret.op = "next"
    /\ ret.is = "Ok"
    /\ ret.at > 0
    /\ DeclaredStart(stream, 2) = Some(ret.at)
    /\ ret.val.offset = Some(ret.at)

\* C13: while the reader has returned no error, reading again at the offset
\* O of a blob B it returned (blob_from_offset(O), or next with the cursor at
\* O) returns a blob with the type, payload and offset of B and leaves the
\* cursor where it was after B was first read: at the start of the record
\* that follows B, O + 4 + header_size + datasize when B's record is whole.
C13_RereadSameBlob ==
    ( /\ ret.op \in ReadOps
      /\ err_before = None
      /\ ~ret.fault
      /\ ret.is # "Panic"
      /\ IsSome(kept)
      /\ kept[1].blob.offset = Some(ret.at) )
        => /\ ret.is = "Ok"
           /\ ret.val = kept[1].blob
           /\ reader.reader = kept[1].next_at
           /\ WholeAt(stream, ret.at)
                => reader.reader = ret.at + DeclaredLen(HeaderAt(stream, ret.at)[1])

\* A blob is read again by blob_from_offset after the cursor had moved past
\* the record that follows it.
C13_Witness ==
    /\ ret.op = "blob_from_offset"
    /\ err_before = None
    /\ ~ret.fault
    /\ IsSome(kept)
    /\ kept[1].blob.offset = Some(ret.at)
    /\ ret.is = "Ok"
    /\ ret.val = kept[1].blob
    /\ WholeAt(stream, ret.at)
    /\ reader.reader < Len(stream)

\* C14: a call of next at a record with a well-formed header consumes at
\* most 4 + header_size + datasize bytes, and exactly that many when it
\* returns a blob.
C14_ConsumesDeclaredBytes ==
    (ret.op = "next" /\ IsSome(HeaderAt(stream, ret.at)))
        => /\ reader.reader - ret.at <= DeclaredLen(HeaderAt(stream, ret.at)[1])
           /\ ret.is = "Ok"
                => reader.reader - ret.at = DeclaredLen(HeaderAt(stream, ret.at)[1])

-----------------------------------------------------------------------------
(* ElementReader (reader.rs): for_each and par_map_reduce.                 *)

\* Blob::get_type
get_type(b) ==
    CASE b.header.type = "OSMHeader" -> "OsmHeader"
      [] b.header.type = "OSMData" -> "OsmData"
      [] OTHER -> "Unknown"

\* Blob::decode
Blob_decode(b) ==
    CASE get_type(b) = "OsmHeader" ->
           With(decode_blob(b.blob, "HeaderBlock"), LAMBDA r :
             IF r.is = "Ok"
             THEN [is |-> "Ok", val |-> [decoded |-> "OsmHeader", block |-> <<>>]]
             ELSE r)
      [] get_type(b) = "OsmData" ->
           With(decode_blob(b.blob, "PrimitiveBlock"), LAMBDA r :
             IF r.is = "Ok"
             THEN [is |-> "Ok", val |-> [decoded |-> "OsmData", block |-> r.val]]
             ELSE r)
      [] OTHER -> [is |-> "Ok", val |-> [decoded |-> "Unknown", block |-> <<>>]]

\* The element views of one group of the block decoded from the i-th blob;
\* an element is known by its kind and its place (blob, group, index).
Element(kind, i, g, k, m) ==
    [kind |-> kind, blob |-> i, group |-> g, idx |-> k, msg |-> m]

nodes(i, g, grp) ==
    [k \in 1..Len(grp.nodes) |-> Element("Node", i, g, k, grp.nodes[k])]

dense_nodes(i, g, grp) ==
    [k \in 1..Len(grp.dense) |-> Element("DenseNode", i, g, k, grp.dense[k])]

ways(i, g, grp) ==
    [k \in 1..Len(grp.ways) |-> Element("Way", i, g, k, grp.ways[k])]

relations(i, g, grp) ==
    [k \in 1..Len(grp.relations) |-> Element("Relation", i, g, k, grp.relations[k])]

\* <BlobReader as Iterator>::collect::<Result<Vec<_>>>()
RECURSIVE collect(_, _, _)
collect(s, rd, acc) ==
    With(BlobReader_next(s, rd, FALSE, FALSE), LAMBDA n :
      IF n.is = "None" THEN [rd |-> n.rd, is |-> "Ok", val |-> acc]
      ELSE IF n.is = "Ok" THEN collect(s, n.rd, Append(acc, n.val))
      ELSE n)

\* The calls of f for one block, in the order of the loop body of for_each.
for_each_block(i, block) ==
    Concat([g \in 1..Len(block) |->
              nodes(i, g, block[g]) \o dense_nodes(i, g, block[g])
                \o ways(i, g, block[g]) \o relations(i, g, block[g])])

RECURSIVE for_each_blobs(_, _, _)
for_each_blobs(blobs, i, seen) ==
    IF i > Len(blobs) THEN [is |-> "Ok", val |-> <<>>, visited |-> seen]
    ELSE
      With(Blob_decode(blobs[i]), LAMBDA d :
        IF d.is = "Err" THEN [is |-> "Err", val |-> d.val, visited |-> seen]
        ELSE IF d.val.decoded = "OsmData"
        THEN for_each_blobs(blobs, i + 1, seen \o for_each_block(i, d.val.block))
        ELSE for_each_blobs(blobs, i + 1, seen))

for_each(s, rd) ==
    With(collect(s, rd, <<>>), LAMBDA blobs :
      IF blobs.is # "Ok"
      THEN [is |-> blobs.is, val |-> blobs.val, visited |-> <<>>]
      ELSE for_each_blobs(blobs.val, 1, <<>>))

\* The closures handed to par_map_reduce: the free monoid over the elements,
\* through which every associative reduce_op with a neutral identity factors.
map_op(e) == <<e>>

identity == <<>>

reduce_op(a, b) == a \o b

RECURSIVE fold(_, _)
fold(acc, es) ==
    IF es = <<>> THEN acc ELSE fold(reduce_op(acc, map_op(Head(es))), Tail(es))

\* The closure of the parallel map, applied to the i-th blob.
par_map_block(i, block) ==
    [is |-> "Ok",
     val |-> fold(identity,
                  Concat([g \in 1..Len(block) |-> dense_nodes(i, g, block[g])])
                    \o Concat([g \in 1..Len(block) |-> nodes(i, g, block[g])])
                    \o Concat([g \in 1..Len(block) |-> ways(i, g, block[g])])
                    \o Concat([g \in 1..Len(block) |-> relations(i, g, block[g])]))]

par_map(i, b) ==
    With(Blob_decode(b), LAMBDA d :
      IF d.is = "Err" THEN [is |-> "Err", val |-> d.val]
      ELSE IF d.val.decoded = "OsmData" THEN par_map_block(i, d.val.block)
      ELSE [is |-> "Ok", val |-> identity])

\* The reduce closure with Result::or in the place of Result::and.
par_reduce_or(a, b) ==
    IF a.is = "Ok" /\ b.is = "Ok"
    THEN [is |-> "Ok", val |-> reduce_op(a.val, b.val)]
    ELSE IF a.is = "Ok" THEN a ELSE b

\* The closure of the parallel reduce: (Ok, Ok) => reduce_op, else x.and(y).
par_reduce(a, b) ==
    IF a.is = "Ok" /\ b.is = "Ok"
    THEN [is |-> "Ok", val |-> reduce_op(a.val, b.val)]
    ELSE IF a.is = "Ok" THEN b ELSE a

\* Input files with what each record is meant to hold: the error reading or
\* decoding it gives (if any) and the block it carries.
ZlibPayload(c) == <<2, Len(Deflate(c))>> \o Deflate(c)

Holds(bytes, fails, block) == [bytes |-> bytes, fails |-> fails, block |-> block]

ElemRecords ==
    { Holds(HeaderRecord, None, <<>>),
      Holds(UnknownRecord, None, <<>>),
      Holds(Record(2, RawPayload(<<1>>)), None, BlockTable[1]),
      Holds(Record(2, ZlibPayload(<<2>>)), None, BlockTable[2]),
      Holds(Record(2, RawPayload(<<4>>)), None, BlockTable[4]),
      Holds(Record(2, RawPayload(<<77>>)), Some(new_protobuf_error("raw blob data")), <<>>),
      Holds(BadHeaderRecord, Some(new_protobuf_error("blob header")), <<>>) }

ElemFiles == [recs : SeqsUpTo(ElemRecords, MaxRecords), tail : {0}]

LayoutHeld(f) == Layout([recs |-> [i \in 1..Len(f.recs) |-> f.recs[i].bytes], tail |-> f.tail])

InitElements ==
    /\ file \in ElemFiles
    /\ stream = LayoutHeld(file)
    /\ under = "ElementReader::new"
    /\ reader = BlobReader_new
    /\ mmap_reader = MmapBlobReader_new
    /\ first_err = None
    /\ err_before = None
    /\ ret = [op |-> "new", at |-> 0, fault |-> FALSE, is |-> "Ok", val |-> <<>>]
    /\ phase = "ready"
    /\ visited = <<>>
    /\ parts = <<>>
    /\ DecodeIdle
    /\ StatsIdle
    /\ AgainIdle
    /\ BuilderIdle
    /\ WriterIdle
    /\ ViewsIdle
    /\ OffsetsIdle
    /\ IndexIdle

\* ElementReader::for_each
ForEach ==
    /\ phase = "ready"
    /\ With(for_each(stream, reader), LAMBDA r :
         /\ visited' = r.visited
         /\ ret' = [op |-> "for_each", at |-> 0, fault |-> FALSE, is |-> r.is, val |-> r.val])
    /\ phase' = "done"
    /\ UNCHANGED <<frameVars, decodeVars, indexVars, parts, offsetVars, viewVars, writerVars, builderVars, againVars, statsVars>>

\* ElementReader::par_map_reduce, up to the start of the parallel iterator
ParCollect ==
    /\ phase = "ready"
    /\ With(collect(stream, reader, <<>>), LAMBDA blobs :
         IF blobs.is # "Ok"
         THEN /\ ret' = [op |-> "par_map_reduce", at |-> 0, fault |-> FALSE,
                         is |-> blobs.is, val |-> blobs.val]
              /\ phase' = "done"
              /\ parts' = parts
         ELSE /\ parts' = [i \in 1..Len(blobs.val) |->
                             [is |-> "Todo", val |-> [i |-> i, blob |-> blobs.val[i]]]]
              /\ phase' = "reducing"
              /\ ret' = ret)
    /\ UNCHANGED <<frameVars, decodeVars, indexVars, visited, offsetVars, viewVars, writerVars, builderVars, againVars, statsVars>>

\* a worker runs the map closure on one blob
ParMap ==
    /\ phase = "reducing"
    /\ \E i \in DOMAIN parts :
         /\ parts[i].is = "Todo"
         /\ parts' = [parts EXCEPT ![i] = par_map(parts[i].val.i, parts[i].val.blob)]
    /\ UNCHANGED <<frameVars, decodeVars, indexVars, visited, phase, ret, offsetVars, viewVars, writerVars, builderVars, againVars, statsVars>>

\* a worker combines two neighbouring items
ParReduce ==
    /\ phase = "reducing"
    /\ \E i \in 1..(Len(parts) - 1) :
         /\ parts[i].is # "Todo"
         /\ parts[i + 1].is # "Todo"
         /\ parts' = SubSeq(parts, 1, i - 1) \o <<par_reduce(parts[i], parts[i + 1])>>
                        \o SubSeq(parts, i + 2, Len(parts))
    /\ UNCHANGED <<frameVars, decodeVars, indexVars, visited, phase, ret, offsetVars, viewVars, writerVars, builderVars, againVars, statsVars>>

\* a worker starts a fold from Ok(identity())
ParIdentity ==
    /\ phase = "reducing"
    /\ Len(parts) <= MaxRecords
    /\ \E i \in 0..Len(parts) :
         parts' = SubSeq(parts, 1, i) \o <<[is |-> "Ok", val |-> identity]>>
                    \o SubSeq(parts, i + 1, Len(parts))
    /\ UNCHANGED <<frameVars, decodeVars, indexVars, visited, phase, ret, offsetVars, viewVars, writerVars, builderVars, againVars, statsVars>>

\* par_map_reduce returns the one item left
ParReturn ==
    /\ phase = "reducing"
    /\ Len(parts) = 1
    /\ parts[1].is # "Todo"
    /\ ret' = [op |-> "par_map_reduce", at |-> 0, fault |-> FALSE,
               is |-> parts[1].is, val |-> parts[1].val]
    /\ phase' = "done"
    /\ UNCHANGED <<frameVars, decodeVars, indexVars, visited, parts, offsetVars, viewVars, writerVars, builderVars, againVars, statsVars>>

NextElements ==
    \/ ForEach
    \/ ParCollect
    \/ ParMap
    \/ ParReduce
    \/ ParIdentity
    \/ ParReturn

SpecElements == InitElements /\ [][NextElements]_vars

-----------------------------------------------------------------------------
(* Properties of the element reader, against what the file holds.          *)

Failing(f) == { i \in 1..Len(f.recs) : IsSome(f.recs[i].fails) }

FirstFailing(f) == CHOOSE i \in Failing(f) : \A j \in Failing(f) : i <= j

SeqRange(q) == { q[k] : k \in 1..Len(q) }

\* The elements of the records before index n; a record without a block
\* (header, unknown, failing) holds none.
HeldElements(f, n) ==
    UNION { SeqRange(for_each_block(i, f.recs[i].block)) : i \in 1..(n - 1) }

\* C6: for_each processes blobs in on-disk order: f is called once for each
\* element of each OsmData blob and for nothing else; at the first blob, in
\* file order, that fails to be read or decoded it stops and returns that
\* blob's error; with no failing blob it returns Ok after every element.
C6_ForEachInFileOrder ==
    ret.op = "for_each" =>
      /\ \A j, k \in 1..Len(visited) :
            /\ (j # k => visited[j] # visited[k])
            /\ (j < k => visited[j].blob <= visited[k].blob)
      /\ IF Failing(file) = {}
         THEN /\ ret.is = "Ok"
              /\ SeqRange(visited) = HeldElements(file, Len(file.recs) + 1)
         ELSE /\ ret.is = "Err"
              /\ ret.val = file.recs[FirstFailing(file)].fails[1]
              /\ SeqRange(visited) = HeldElements(file, FirstFailing(file))

\* C2: for a file that reads and decodes without error, par_map_reduce
\* returns, under every scheduling, the fold of reduce over map(e) for the
\* elements e in the order in which for_each visits them.
C2_ParallelEqualsSequential ==
    (ret.op = "par_map_reduce" /\ Failing(file) = {})
        => /\ ret.is = "Ok"
           /\ ret.val = fold(identity, for_each(stream, BlobReader_new).visited)

\* C7: under every interleaving par_map_reduce returns an Err exactly when
\* reading or decoding at least one blob fails, and the error is the error
\* of one of the failing blobs.
C7_ErrorNeverMasked ==
    ret.op = "par_map_reduce" =>
      /\ (ret.is = "Err" <=> Failing(file) # {})
      /\ ret.is \in {"Ok", "Err"}
      /\ (ret.is = "Err" => \E i \in Failing(file) : ret.val = file.recs[i].fails[1])

\* par_map_reduce returned the decode error of one blob although another blob
\* of the file gave a partial result with elements.
C7_Witness ==
    /\ ret.op = "par_map_reduce"
    /\ ret.is = "Err"
    /\ ret.val = new_protobuf_error("raw blob data")
    /\ \E i \in 1..Len(file.recs) : file.recs[i].block # <<>>

-----------------------------------------------------------------------------
(* IndexedReader (indexed.rs).                                             *)

\* WayRefIter: the node ids of a way, decoded from the deltas.
RECURSIVE WayRefIter(_, _)
WayRefIter(deltas, current) ==
    IF deltas = <<>> THEN <<>>
    ELSE <<current + Head(deltas)>> \o WayRefIter(Tail(deltas), current + Head(deltas))

refs(way) == WayRefIter(way.refs, 0)

\* The way filters handed to read_ways_and_deps: by tag, all, none.
Filters == {"a", "b", "any", "none"}

filter_way(P, way) ==
    CASE P = "any" -> TRUE
      [] P = "none" -> FALSE
      [] OTHER -> way.tag = P

BlobInfo(offset, blob_type, id_ranges) ==
    [offset |-> offset, blob_type |-> blob_type, id_ranges |-> id_ranges]

nodes_available(info) ==
    IF info.id_ranges = None THEN "Unknown"
    ELSE IF IsSome(info.id_ranges[1].node_ids) THEN "Yes" ELSE "No"

\* The variant that looks at the node range.
ways_available_by_nodes(info) ==
    IF info.id_ranges = None THEN "Unknown"
    ELSE IF IsSome(info.id_ranges[1].node_ids) THEN "Yes" ELSE "No"

ways_available(info) ==
    IF info.id_ranges = None THEN "Unknown"
    ELSE IF IsSome(info.id_ranges[1].way_ids) THEN "Yes" ELSE "No"

\* The variant that looks only at the start of the range.
range_included_start(range, node_ids) == range[1] \in node_ids

range_included(range, node_ids) ==
    \E id \in node_ids : range[1] <= id /\ id <= range[2]

\* RangeIncluded::Yes(range) is Some(range); No and Unknown are told apart
\* by no caller and are both None.
node_range_included(info, node_ids) ==
    IF info.id_ranges = None THEN None
    ELSE IF info.id_ranges[1].node_ids = None THEN None
    ELSE IF range_included(info.id_ranges[1].node_ids[1], node_ids)
    THEN Some(info.id_ranges[1].node_ids[1])
    ELSE None

SimpleBlobType(header) ==
    CASE header.type = "OSMHeader" -> "Header"
      [] header.type = "OSMData" -> "Primitive"
      [] OTHER -> "Unknown"

\* fault_at: which read of the call meets an I/O error (0: none); reads counts
\* the reads the call has made.
RECURSIVE index_loop(_, _, _, _, _)
index_loop(s, rd, idx, fault_at, reads) ==
    With(next_header_skip_blob(s, rd, fault_at = reads + 1), LAMBDA r :
      IF r.is = "None"
      THEN [rd |-> r.rd, index |-> idx, is |-> "Ok", val |-> <<>>, reads |-> reads + 1]
      ELSE IF r.is = "Err"
      THEN [rd |-> r.rd, index |-> idx, is |-> "Err", val |-> r.val, reads |-> reads + 1]
      ELSE index_loop(s, r.rd,
                      Append(idx, BlobInfo(r.val.offset[1], SimpleBlobType(r.val.header), None)),
                      fault_at, reads + 1))

create_index(s, rd, idx, fault_at) ==
    IF idx # <<>>
    THEN [rd |-> rd, index |-> idx, is |-> "Ok", val |-> <<>>, reads |-> 0]
    ELSE index_loop(s, BlobReader_seek(rd, 0).rd, idx, fault_at, 0)

MinOf(ids) == CHOOSE m \in ids : \A x \in ids : m <= x

MaxOf(ids) == CHOOSE m \in ids : \A x \in ids : m >= x

to_range(ids) == IF ids = {} THEN None ELSE Some(<<MinOf(ids), MaxOf(ids)>>)

\* The variant that leaves out the dense nodes.
update_element_id_ranges_sparse(info, block) ==
    IF info.id_ranges # None THEN info
    ELSE
      LET node_id == UNION { {block[g].nodes[k].id : k \in 1..Len(block[g].nodes)} :
                             g \in 1..Len(block) }
          way_id == UNION { {block[g].ways[k].id : k \in 1..Len(block[g].ways)} :
                            g \in 1..Len(block) }
          relation_id == UNION { {block[g].relations[k].id : k \in 1..Len(block[g].relations)} :
                                 g \in 1..Len(block) }
      IN [info EXCEPT !.id_ranges = Some([node_ids |-> to_range(node_id),
                                          way_ids |-> to_range(way_id),
                                          relation_ids |-> to_range(relation_id)])]

update_element_id_ranges(info, block) ==
    IF info.id_ranges # None THEN info
    ELSE
      LET node_id == UNION { {block[g].nodes[k].id : k \in 1..Len(block[g].nodes)}
                             \cup {block[g].dense[k].id : k \in 1..Len(block[g].dense)} :
                             g \in 1..Len(block) }
          way_id == UNION { {block[g].ways[k].id : k \in 1..Len(block[g].ways)} :
                            g \in 1..Len(block) }
          relation_id == UNION { {block[g].relations[k].id : k \in 1..Len(block[g].relations)} :
                                 g \in 1..Len(block) }
      IN [info EXCEPT !.id_ranges = Some([node_ids |-> to_range(node_id),
                                          way_ids |-> to_range(way_id),
                                          relation_ids |-> to_range(relation_id)])]

\* blob_from_offset(info.offset)?.to_primitiveblock()?
load_block(s, rd, info, fault) ==
    With(blob_from_offset(s, rd, info.offset, fault, FALSE), LAMBDA b :
      IF b.is # "Ok" THEN b
      ELSE With(decode_blob(b.val.blob, "PrimitiveBlock"), LAMBDA d :
             [rd |-> b.rd, is |-> d.is, val |-> d.val]))

Keep(q, Test(_)) == SelectSeq(q, Test)

\* The ways of a block that the filter accepts, in the order of the loops.
accepted_ways(i, block, P) ==
    Keep(Concat([g \in 1..Len(block) |-> ways(i, g, block[g])]),
         LAMBDA e : filter_way(P, e.msg))

\* The node ids a sequence of way elements refers to.
ref_ids(acc) == UNION { SeqRange(refs(acc[k].msg)) : k \in 1..Len(acc) }

\* The state of one call: st.out is what the callback has been handed.
RECURSIVE first_pass(_, _, _, _, _)
first_pass(s, P, fault_at, st, i) ==
    IF i > Len(st.index) THEN st
    ELSE IF st.index[i].blob_type = "Primitive" /\ ways_available(st.index[i]) # "No"
    THEN
      With(load_block(s, st.rd, st.index[i], fault_at = st.reads + 1), LAMBDA b :
        IF b.is # "Ok"
        THEN [st EXCEPT !.rd = b.rd, !.is = b.is, !.val = b.val, !.reads = @ + 1,
                        !.loaded = Append(@, st.index[i])]
        ELSE
          With(accepted_ways(i, b.val, P), LAMBDA acc :
            first_pass(s, P, fault_at,
                       [st EXCEPT !.rd = b.rd, !.reads = @ + 1, !.loaded = Append(@, st.index[i]),
                                  !.index[i] = update_element_id_ranges(@, b.val),
                                  !.node_ids = @ \cup ref_ids(acc),
                                  !.out = @ \o acc],
                       i + 1)))
    ELSE first_pass(s, P, fault_at, st, i + 1)

\* The second loop goes over the sparse nodes again.
found_nodes_again(i, block, ids) ==
    Concat([g \in 1..Len(block) |->
              Keep(nodes(i, g, block[g]), LAMBDA e : e.msg.id \in ids)
                \o Keep(nodes(i, g, block[g]), LAMBDA e : e.msg.id \in ids)])

\* The nodes of a block found in the sorted snapshot of the wanted ids.
found_nodes(i, block, ids) ==
    Concat([g \in 1..Len(block) |->
              Keep(nodes(i, g, block[g]), LAMBDA e : e.msg.id \in ids)
                \o Keep(dense_nodes(i, g, block[g]), LAMBDA e : e.msg.id \in ids)])

\* node_ids.range(node_id_range).copied().collect()
range_collect(node_ids, range) ==
    { id \in node_ids : range[1] <= id /\ id <= range[2] }

RECURSIVE second_pass(_, _, _, _)
second_pass(s, fault_at, st, i) ==
    IF i > Len(st.index) THEN st
    ELSE
      With(node_range_included(st.index[i], st.node_ids), LAMBDA node_id_range :
        IF IsSome(node_id_range)
        THEN
          With(load_block(s, st.rd, st.index[i], fault_at = st.reads + 1), LAMBDA b :
            IF b.is # "Ok"
            THEN [st EXCEPT !.rd = b.rd, !.is = b.is, !.val = b.val, !.reads = @ + 1,
                        !.loaded = Append(@, st.index[i])]
            ELSE second_pass(s, fault_at,
                             [st EXCEPT !.rd = b.rd, !.reads = @ + 1, !.loaded = Append(@, st.index[i]),
                                        !.out = @ \o found_nodes(i, b.val,
                                                   range_collect(st.node_ids, node_id_range[1]))],
                             i + 1))
        ELSE second_pass(s, fault_at, st, i + 1))

CallState(c) ==
    [rd |-> c.rd, index |-> c.index, is |-> c.is, val |-> c.val, reads |-> c.reads,
     node_ids |-> {}, out |-> <<>>, loaded |-> <<>>]

read_ways_and_deps(s, rd, idx, P, fault_at) ==
    With(create_index(s, rd, idx, fault_at), LAMBDA c :
      IF c.is # "Ok" THEN CallState(c)
      ELSE With(first_pass(s, P, fault_at, CallState(c), 1), LAMBDA p1 :
             IF p1.is # "Ok" THEN p1 ELSE second_pass(s, fault_at, p1, 1)))

all_nodes(i, block) ==
    Concat([g \in 1..Len(block) |->
              nodes(i, g, block[g]) \o dense_nodes(i, g, block[g])])

RECURSIVE node_pass(_, _, _, _)
node_pass(s, fault_at, st, i) ==
    IF i > Len(st.index) THEN st
    ELSE IF st.index[i].blob_type = "Primitive" /\ nodes_available(st.index[i]) # "No"
    THEN
      With(load_block(s, st.rd, st.index[i], fault_at = st.reads + 1), LAMBDA b :
        IF b.is # "Ok"
        THEN [st EXCEPT !.rd = b.rd, !.is = b.is, !.val = b.val, !.reads = @ + 1,
                        !.loaded = Append(@, st.index[i])]
        ELSE node_pass(s, fault_at,
                       [st EXCEPT !.rd = b.rd, !.reads = @ + 1, !.loaded = Append(@, st.index[i]),
                                  !.index[i] = update_element_id_ranges(@, b.val),
                                  !.out = @ \o all_nodes(i, b.val)],
                       i + 1))
    ELSE node_pass(s, fault_at, st, i + 1)

for_each_node(s, rd, idx, fault_at) ==
    With(create_index(s, rd, idx, fault_at), LAMBDA c :
      IF c.is # "Ok" THEN CallState(c) ELSE node_pass(s, fault_at, CallState(c), 1))

\* Input files of well-framed records: only a read fault or an undecodable
\* payload makes a call fail.
IndexedRecords ==
    { Holds(HeaderRecord, None, <<>>),
      Holds(UnknownRecord, None, <<>>),
      Holds(Record(2, RawPayload(<<1>>)), None, BlockTable[1]),
      Holds(Record(2, ZlibPayload(<<2>>)), None, BlockTable[2]),
      Holds(Record(2, RawPayload(<<3>>)), None, BlockTable[3]),
      Holds(Record(2, RawPayload(<<4>>)), None, BlockTable[4]),
      Holds(Record(2, RawPayload(<<5>>)), None, BlockTable[5]),
      Holds(Record(2, RawPayload(<<77>>)), Some(new_protobuf_error("raw blob data")), <<>>) }

IndexedFiles == [recs : SeqsUpTo(IndexedRecords, MaxRecords), tail : {0}]

\* The read of a call that meets an I/O error: none, the first, the second.
FaultAts == {0, 1, 2}

InitIndexed ==
    /\ file \in IndexedFiles
    /\ stream = LayoutHeld(file)
    /\ under = "IndexedReader::new"
    /\ reader = new_seekable
    /\ mmap_reader = MmapBlobReader_new
    /\ first_err = None
    /\ err_before = None
    /\ ret = [op |-> "new", at |-> 0, fault |-> FALSE, is |-> "Ok", val |-> <<>>]
    /\ index = <<>>
    /\ emitted = <<>>
    /\ filter = "none"
    /\ loaded = <<>>
    /\ DecodeIdle
    /\ StatsIdle
    /\ AgainIdle
    /\ BuilderIdle
    /\ WriterIdle
    /\ ViewsIdle
    /\ OffsetsIdle
    /\ ElemIdle

Called(op, fault_at, r) ==
    /\ reader' = r.rd
    /\ index' = r.index
    /\ ret' = Returned(op, 0, fault_at # 0, r)
    /\ first_err' = IF IsSome(first_err) THEN first_err ELSE ErrorKind(r)
    /\ err_before' = first_err

\* IndexedReader::create_index
CreateIndex ==
    /\ \E fault_at \in FaultAts :
         Called("create_index", fault_at, create_index(stream, reader, index, fault_at))
    /\ emitted' = <<>>
    /\ loaded' = <<>>
    /\ UNCHANGED <<file, stream, under, mmap_reader, filter, decodeVars, elemVars, offsetVars, viewVars, writerVars, builderVars, againVars, statsVars>>

\* IndexedReader::read_ways_and_deps
ReadWaysAndDeps ==
    /\ \E P \in Filters, fault_at \in FaultAts :
         With(read_ways_and_deps(stream, reader, index, P, fault_at), LAMBDA r :
           /\ Called("read_ways_and_deps", fault_at, r)
           /\ emitted' = r.out
           /\ loaded' = r.loaded
           /\ filter' = P)
    /\ UNCHANGED <<file, stream, under, mmap_reader, decodeVars, elemVars, offsetVars, viewVars, writerVars, builderVars, againVars, statsVars>>

\* IndexedReader::for_each_node
ForEachNode ==
    /\ \E fault_at \in FaultAts :
         With(for_each_node(stream, reader, index, fault_at), LAMBDA r :
           /\ Called("for_each_node", fault_at, r)
           /\ emitted' = r.out
           /\ loaded' = r.loaded)
    /\ UNCHANGED <<file, stream, under, mmap_reader, filter, decodeVars, elemVars, offsetVars, viewVars, writerVars, builderVars, againVars, statsVars>>

NextIndexed ==
    \/ CreateIndex
    \/ ReadWaysAndDeps
    \/ ForEachNode

SpecIndexed == InitIndexed /\ [][NextIndexed]_vars

-----------------------------------------------------------------------------
(* Properties of the indexed reader, against what the file holds.          *)

OfKind(q, kinds) == { q[k] : k \in { j \in 1..Len(q) : q[j].kind \in kinds } }

NodeKinds == {"Node", "DenseNode"}

\* The elements the data records of the file hold.
FileElements(f) == HeldElements(f, Len(f.recs) + 1)

FileWays(f) == { e \in FileElements(f) : e.kind = "Way" }

FileNodes(f) == { e \in FileElements(f) : e.kind \in NodeKinds }

OnceEach(q, kinds) ==
    \A j, k \in 1..Len(q) : (j # k /\ q[j].kind \in kinds) => q[j] # q[k]

\* The node ids the ways handed to the callback refer to.
WantedIds == UNION { SeqRange(refs(w.msg)) : w \in OfKind(emitted, {"Way"}) }

\* C3: a call of read_ways_and_deps that returns Ok has handed to the
\* callback exactly the ways of the file that the filter accepts, each once,
\* and no relation; on the first call and on every later one.
C3_ExactlyMatchingWays ==
    (ret.op = "read_ways_and_deps" /\ ret.is = "Ok") =>
      /\ OfKind(emitted, {"Way"}) = { w \in FileWays(file) : filter_way(filter, w.msg) }
      /\ OnceEach(emitted, {"Way"})
      /\ OfKind(emitted, {"Relation"}) = {}

C5_NoNodeTwice ==
    ret.op = "read_ways_and_deps" => OnceEach(emitted, NodeKinds)

\* a sparse node was delivered whose id a closed way names twice and a
\* second accepted way names again
C5_Witness ==
    /\ ret.op = "read_ways_and_deps"
    /\ \E n \in OfKind(emitted, {"Node"}), w, v \in OfKind(emitted, {"Way"}) :
         /\ w # v
         /\ n.msg.id \in SeqRange(refs(v.msg))
         /\ \E j, k \in 1..Len(refs(w.msg)) :
              j # k /\ refs(w.msg)[j] = n.msg.id /\ refs(w.msg)[k] = n.msg.id

\* The sparse and dense nodes of the data records of the file, in file order.
DataNodes(f) == Concat([i \in 1..Len(f.recs) |-> all_nodes(i, f.recs[i].block)])

\* C23: every call of for_each_node that returns Ok, the first and every
\* later one, has called f on every sparse and dense node of every data blob,
\* in file order, and on no way or relation; and it has read no blob whose
\* index entry already recorded an empty node range.
C23_ForEachNodeAllNodes ==
    (ret.op = "for_each_node" /\ ret.is = "Ok") =>
      /\ emitted = DataNodes(file)
      /\ \A k \in 1..Len(loaded) : nodes_available(loaded[k]) # "No"

\* The ids of the elements of the given kinds that record i of the file holds.
IdsIn(i, kinds) ==
    { e.msg.id : e \in { x \in FileElements(file) : x.blob = i /\ x.kind \in kinds } }

\* Some((min, max)) of a set of ids, None for the empty set.
Span(ids) ==
    IF ids = {} THEN None
    ELSE Some(<<CHOOSE m \in ids : \A x \in ids : m <= x,
                CHOOSE m \in ids : \A x \in ids : m >= x>>)

\* The id_ranges an entry holds are those of the record it stands for.
RangesTrue ==
    \A i \in 1..Len(index) :
      IsSome(index[i].id_ranges) =>
        /\ i <= Len(file.recs)
        /\ index[i].id_ranges[1].node_ids = Span(IdsIn(i, NodeKinds))
        /\ index[i].id_ranges[1].way_ids = Span(IdsIn(i, {"Way"}))
        /\ index[i].id_ranges[1].relation_ids = Span(IdsIn(i, {"Relation"}))

\* What a step leaves of the entries the index held before it.
EntriesKept ==
    \A i \in 1..Len(index) :
      /\ i <= Len(index')
      /\ index'[i].offset = index[i].offset
      /\ index'[i].blob_type = index[i].blob_type
      /\ IsSome(index[i].id_ranges) => index'[i].id_ranges = index[i].id_ranges

\* C24: after any sequence of create_index, read_ways_and_deps and
\* for_each_node calls, the offset and blob type of an index entry never
\* change once recorded, and the id_ranges of an entry, once set, are never
\* cleared or modified and hold the (min, max) of the node, way and relation
\* ids of that blob, None for a category without element.
C24_IndexEntriesStable == [][EntriesKept]_vars /\ []RangesTrue

\* Two calls after the index was built, the entries of a blob of dense nodes
\* and of a blob of ways and a relation both hold their ranges.
C24_Witness ==
    /\ ret.op \in {"read_ways_and_deps", "for_each_node"}
    /\ IsSome(err_before) = FALSE
    /\ \E i, j \in 1..Len(index) :
         /\ IsSome(index[i].id_ranges)
         /\ IsSome(index[j].id_ranges)
         /\ index[i].id_ranges[1].node_ids = Some(<<1, 2>>)
         /\ index[i].id_ranges[1].way_ids = None
         /\ index[j].id_ranges[1].node_ids = None
         /\ IsSome(index[j].id_ranges[1].relation_ids)
         /\ emitted # <<>>
         /\ Len(loaded) = 1

\* The blob type of a record of IndexedRecords.
TypeOfRecord(rec) ==
    IF rec.bytes = HeaderRecord THEN "Header"
    ELSE IF rec.bytes = UnknownRecord THEN "Unknown"
    ELSE "Primitive"

\* The position in the stream at which record i of the file starts.
StartOfRecord(i) ==
    RecordOffsets([k \in 1..Len(file.recs) |-> file.recs[k].bytes], 0)[i]

\* C25: whenever create_index returns Ok, the index holds one entry for each
\* record of the file, in file order, with the offset at which the record
\* starts and its blob type; also when an earlier create_index call on the
\* reader failed part-way through the file.
C25_IndexCompleteOnOk ==
    (ret.op = "create_index" /\ ret.is = "Ok") =>
      /\ Len(index) = Len(file.recs)
      /\ \A i \in 1..Len(index) :
           /\ index[i].offset = StartOfRecord(i)
           /\ index[i].blob_type = TypeOfRecord(file.recs[i])

-----------------------------------------------------------------------------
(* Element views and iterators (block.rs, dense.rs, elements.rs).  A slice *)
(* iterator is kept as the sequence of the items it has not yet yielded.   *)

\* The bounds of the messages the iterators walk.
MaxGroups == 2

MaxDeltas == 3

MaxTags == 3

\* The trailing calls of next that returned None after which no call is made.
MaxNones == 2

\* i64, scaled to 4 bits: -8 .. 7.
I64Modulus == 2 ^ 4

WrapI64(n) == ((n + I64Modulus \div 2) % I64Modulus) - I64Modulus \div 2

\* a += d: the overflow is a panic in a build with overflow checks and wraps
\* in a build without.
AddAssign(a, d, overflow_checks) ==
    [panic |-> overflow_checks /\ WrapI64(a + d) # a + d, val |-> WrapI64(a + d)]

\* slice::Iter::next, as the pair of the item and the iterator left.
SliceNext(s) ==
    IF s = <<>> THEN [item |-> None, rest |-> <<>>]
    ELSE [item |-> Some(Head(s)), rest |-> Tail(s)]

\* osmformat::DenseNodes; the default message has every array empty.
DenseNodes(id, lat, lon, keys_vals) ==
    [id |-> id, lat |-> lat, lon |-> lon, keys_vals |-> keys_vals]

DenseDefault == DenseNodes(<<>>, <<>>, <<>>, <<>>)

\* DenseNodeIter::new; info_iter is left out: its item is matched by a
\* binding that never fails and is only copied into the node.
DenseNodeIter_new(osmdense) ==
    [dids |-> osmdense.id, cid |-> 0,
     dlats |-> osmdense.lat, clat |-> 0,
     dlons |-> osmdense.lon, clon |-> 0,
     keys_vals_slice |-> osmdense.keys_vals, keys_vals_index |-> 0]

DenseNodeIter_empty == DenseNodeIter_new(DenseDefault)

\* The loop that stops at the terminator without moving past it.
RECURSIVE tag_chunks_keeps_terminator(_, _, _)
tag_chunks_keeps_terminator(kv, at, end_index) ==
    IF at >= Len(kv) THEN [keys_vals_index |-> at, end_index |-> end_index]
    ELSE IF kv[at + 1] # 0 /\ at + 2 <= Len(kv)
    THEN tag_chunks_keeps_terminator(kv, at + 2, end_index + 2)
    ELSE [keys_vals_index |-> at, end_index |-> end_index]

\* The loop of DenseNodeIter::next over keys_vals_slice[keys_vals_index..]
\* .chunks(2): keys_vals_index after the loop and end_index.
RECURSIVE tag_chunks(_, _, _)
tag_chunks(kv, at, end_index) ==
    IF at >= Len(kv) THEN [keys_vals_index |-> at, end_index |-> end_index]
    ELSE IF kv[at + 1] # 0 /\ at + 2 <= Len(kv)
    THEN tag_chunks(kv, at + 2, end_index + 2)
    ELSE [keys_vals_index |-> at + 1, end_index |-> end_index]

\* DenseNodeIter::next: [it, is, val]
DenseNodeIter_next(it, overflow_checks) ==
    LET did == SliceNext(it.dids)
        dlat == SliceNext(it.dlats)
        dlon == SliceNext(it.dlons)
        it1 == [it EXCEPT !.dids = did.rest, !.dlats = dlat.rest, !.dlons = dlon.rest]
    IN
    IF IsSome(did.item) /\ IsSome(dlat.item) /\ IsSome(dlon.item)
    THEN
      LET cid == AddAssign(it.cid, did.item[1], overflow_checks)
          clat == AddAssign(it.clat, dlat.item[1], overflow_checks)
          clon == AddAssign(it.clon, dlon.item[1], overflow_checks)
          start_index == it.keys_vals_index
          run == tag_chunks(it.keys_vals_slice, start_index, start_index)
      IN
      IF cid.panic \/ clat.panic \/ clon.panic
      THEN [it |-> it1, is |-> "Panic", val |-> <<>>]
      ELSE [it |-> [it1 EXCEPT !.cid = cid.val, !.clat = clat.val, !.clon = clon.val,
                               !.keys_vals_index = run.keys_vals_index],
            is |-> "Some",
            val |-> [id |-> cid.val, lat |-> clat.val, lon |-> clon.val,
                     keys_vals_indices |->
                         SubSeq(it.keys_vals_slice, start_index + 1, run.end_index)]]
    ELSE [it |-> it1, is |-> "None", val |-> <<>>]

\* DenseNode::raw_tags(), collected: DenseRawTagIter::next until None.
RECURSIVE DenseRawTagIter(_)
DenseRawTagIter(keys_vals_indices) ==
    IF Len(keys_vals_indices) >= 2
    THEN << <<keys_vals_indices[1], keys_vals_indices[2]>> >>
            \o DenseRawTagIter(SubSeq(keys_vals_indices, 3, Len(keys_vals_indices)))
    ELSE <<>>

\* osmformat::PrimitiveGroup
PrimitiveGroup(dense, sparse, way_msgs, relation_msgs) ==
    [dense |-> dense, nodes |-> sparse, ways |-> way_msgs, relations |-> relation_msgs]

\* BlockElementsIter::new
BlockElementsIter_new(block) ==
    [state |-> "Group", groups |-> block.primitivegroup, dense_nodes |-> DenseNodeIter_empty,
     nodes |-> <<>>, ways |-> <<>>, relations |-> <<>>]

\* An arm that goes back to the groups whenever its slice is exhausted.
step_slice_to_group(it, field, kind, then) ==
    LET n == SliceNext(it[field]) IN
    IF IsSome(n.item)
    THEN [it |-> [it EXCEPT ![field] = n.rest], is |-> "Some",
          val |-> [kind |-> kind, val |-> n.item[1]]]
    ELSE [it |-> [it EXCEPT !.state = "Group"], is |-> "Again", val |-> <<>>]

\* One arm of BlockElementsIter::step over a slice iterator.
step_slice(it, field, kind, then) ==
    LET n == SliceNext(it[field]) IN
    IF IsSome(n.item)
    THEN [it |-> [it EXCEPT ![field] = n.rest], is |-> "Some",
          val |-> [kind |-> kind, val |-> n.item[1]]]
    ELSE [it |-> [it EXCEPT !.state = then], is |-> "Again", val |-> <<>>]

\* BlockElementsIter::step: "Again" is None (no value yet), "None" is
\* Some(None) (the end), "Some" is Some(Some(element)).
step(it, overflow_checks) ==
    CASE it.state = "Group" ->
           LET g == SliceNext(it.groups) IN
           IF IsSome(g.item)
           THEN [it |-> [state |-> "DenseNode", groups |-> g.rest,
                         dense_nodes |-> DenseNodeIter_new(g.item[1].dense),
                         nodes |-> g.item[1].nodes, ways |-> g.item[1].ways,
                         relations |-> g.item[1].relations],
                 is |-> "Again", val |-> <<>>]
           ELSE [it |-> [it EXCEPT !.groups = g.rest], is |-> "None", val |-> <<>>]
      [] it.state = "DenseNode" ->
           LET d == DenseNodeIter_next(it.dense_nodes, overflow_checks) IN
           IF d.is = "None"
           THEN [it |-> [it EXCEPT !.dense_nodes = d.it, !.state = "Node"],
                 is |-> "Again", val |-> <<>>]
           ELSE [it |-> [it EXCEPT !.dense_nodes = d.it], is |-> d.is,
                 val |-> [kind |-> "DenseNode", val |-> d.val]]
      [] it.state = "Node" -> step_slice(it, "nodes", "Node", "Way")
      [] it.state = "Way" -> step_slice(it, "ways", "Way", "Relation")
      [] it.state = "Relation" -> step_slice(it, "relations", "Relation", "Group")

\* The steps after which the loop of next is cut in the model.
StepLimit == 5 * (MaxGroups + 2) + 10

\* The loop of BlockElementsIter::next, with the number of steps it took;
\* StepLimit cuts a loop that would not end.
RECURSIVE BlockElementsIter_next(_, _, _)
BlockElementsIter_next(it, overflow_checks, steps) ==
    With(step(it, overflow_checks), LAMBDA s :
      IF s.is = "Again" /\ steps + 1 < StepLimit
      THEN BlockElementsIter_next(s.it, overflow_checks, steps + 1)
      ELSE [it |-> s.it, is |-> s.is, val |-> s.val, steps |-> steps + 1])

\* WayRefIter: Way::refs() is WayRefIter { deltas: refs.iter(), current: 0 }
WayRefIter_new(way) == [deltas |-> way.refs, current |-> 0]

\* A WayRefIter that returns the delta and adds it afterwards.
WayRefIter_next_late(it, overflow_checks) ==
    LET d == SliceNext(it.deltas) IN
    IF IsSome(d.item)
    THEN LET current == AddAssign(it.current, d.item[1], overflow_checks) IN
         IF current.panic THEN [it |-> it, is |-> "Panic", val |-> <<>>]
         ELSE [it |-> [deltas |-> d.rest, current |-> current.val],
               is |-> "Some", val |-> it.current]
    ELSE [it |-> [it EXCEPT !.deltas = d.rest], is |-> "None", val |-> <<>>]

\* WayRefIter::next
WayRefIter_next(it, overflow_checks) ==
    LET d == SliceNext(it.deltas) IN
    IF IsSome(d.item)
    THEN LET current == AddAssign(it.current, d.item[1], overflow_checks) IN
         IF current.panic THEN [it |-> it, is |-> "Panic", val |-> <<>>]
         ELSE [it |-> [deltas |-> d.rest, current |-> current.val],
               is |-> "Some", val |-> current.val]
    ELSE [it |-> [it EXCEPT !.deltas = d.rest], is |-> "None", val |-> <<>>]

\* From<EnumOrUnknown<MemberType>> for RelMemberType: EnumOrUnknown::unwrap
\* panics on a value that is no variant (NODE = 0, WAY = 1, RELATION = 2).
RelMemberType_from(rmt) ==
    CASE rmt = 0 -> [panic |-> FALSE, val |-> "Node"]
      [] rmt = 1 -> [panic |-> FALSE, val |-> "Way"]
      [] rmt = 2 -> [panic |-> FALSE, val |-> "Relation"]
      [] OTHER -> [panic |-> TRUE, val |-> ""]

\* RelMemberIter::new
RelMemberIter_new(osmrel) ==
    [role_sids |-> osmrel.roles_sid, member_id_deltas |-> osmrel.memids,
     member_types |-> osmrel.types, current_member_id |-> 0]

\* RelMemberIter::next
RelMemberIter_next(it, overflow_checks) ==
    LET role_sid == SliceNext(it.role_sids)
        mem_id_delta == SliceNext(it.member_id_deltas)
        member_type == SliceNext(it.member_types)
        it1 == [it EXCEPT !.role_sids = role_sid.rest,
                          !.member_id_deltas = mem_id_delta.rest,
                          !.member_types = member_type.rest]
    IN
    IF IsSome(role_sid.item) /\ IsSome(mem_id_delta.item) /\ IsSome(member_type.item)
    THEN
      LET current == AddAssign(it.current_member_id, mem_id_delta.item[1], overflow_checks)
          type == RelMemberType_from(member_type.item[1])
      IN
      IF current.panic \/ type.panic
      THEN [it |-> it1, is |-> "Panic", val |-> <<>>]
      ELSE [it |-> [it1 EXCEPT !.current_member_id = current.val],
            is |-> "Some",
            val |-> [role_sid |-> role_sid.item[1], member_id |-> current.val,
                     member_type |-> type.val]]
    ELSE [it |-> it1, is |-> "None", val |-> <<>>]

\* std::str::from_utf8 on the byte strings of the model: a byte below 128
\* is a character, the byte 255 is part of no UTF-8 sequence.
from_utf8(vec) == \A i \in 1..Len(vec) : vec[i] < 128

StringtableUtf8(idx) == [kind |-> "StringtableUtf8", index |-> idx]

StringtableIndexOutOfBounds(idx) ==
    [kind |-> "StringtableIndexOutOfBounds", index |-> idx]

\* str_from_stringtable: [is, val]
str_from_stringtable(s, idx) ==
    IF idx < Len(s)
    THEN IF from_utf8(s[idx + 1])
         THEN [is |-> "Ok", val |-> s[idx + 1]]
         ELSE [is |-> "Err", val |-> StringtableUtf8(idx)]
    ELSE [is |-> "Err", val |-> StringtableIndexOutOfBounds(idx)]

\* get_stringtable_key_value: Option<(&str, &str)>
get_stringtable_key_value(s, key_index, value_index) ==
    IF IsSome(key_index) /\ IsSome(value_index)
    THEN LET k_res == str_from_stringtable(s, key_index[1])
             v_res == str_from_stringtable(s, value_index[1])
         IN IF k_res.is = "Ok" /\ v_res.is = "Ok"
            THEN Some(<<k_res.val, v_res.val>>)
            ELSE None
    ELSE None

\* TagIter of Node::tags(), Way::tags() and Relation::tags()
TagIter_new(m) == [key_indices |-> m.keys, val_indices |-> m.vals]

\* TagIter::next
TagIter_next(s, it) ==
    LET key == SliceNext(it.key_indices)
        val == SliceNext(it.val_indices)
        kv == get_stringtable_key_value(s, key.item, val.item)
    IN [it |-> [key_indices |-> key.rest, val_indices |-> val.rest],
        is |-> IF IsSome(kv) THEN "Some" ELSE "None",
        val |-> IF IsSome(kv) THEN kv[1] ELSE <<>>]

-----------------------------------------------------------------------------
(* The messages walked and the calls of next.                              *)

Node(id) == [id |-> id]

Relation(id) == [id |-> id]

\* The groups blocks are made of.
GroupShapes ==
    { PrimitiveGroup(DenseNodes(<<1, 1>>, <<0, 0>>, <<0, 0>>, <<>>), <<>>, <<>>, <<>>),
      PrimitiveGroup(DenseDefault, <<Node(5)>>, <<WayMsg(10, <<2, 1>>, "a")>>,
                     <<Relation(6)>>),
      PrimitiveGroup(DenseNodes(<<3>>, <<0>>, <<0>>, <<1, 2>>), <<Node(4), Node(7)>>,
                     <<>>, <<Relation(5)>>),
      PrimitiveGroup(DenseDefault, <<>>, <<>>, <<>>),
      PrimitiveGroup(DenseNodes(<<2, 2>>, <<0>>, <<0, 0>>, <<>>), <<>>,
                     <<WayMsg(11, <<>>, "b")>>, <<>>) }

Blocks == SeqsUpTo(GroupShapes, MaxGroups)

Deltas == {-3, 1, 7}

DeltaSeqs == SeqsUpTo(Deltas, MaxDeltas)

Reverse(s) == [i \in 1..Len(s) |-> s[Len(s) + 1 - i]]

\* keys_vals of up to MaxTags + 2 indices; every node has id, lat and lon.
KeysVals == SeqsUpTo({0, 1, 2}, MaxTags + 2)

DenseCounts == 1..3

\* The stringtable of the block: index 0 is blank, index 3 is not UTF-8 and
\* index 4 is out of bounds.
StringTable == << <<>>, <<107>>, <<118>>, <<255>> >>

TagPairs == { <<1, 2>>, <<2, 1>>, <<3, 2>>, <<1, 4>> }

\* keys and vals of an element; short: vals has one index less than keys.
Tagged(pairs, short) ==
    [keys |-> [i \in 1..Len(pairs) |-> pairs[i][1]],
     vals |-> [i \in 1..(Len(pairs) - (IF short /\ pairs # <<>> THEN 1 ELSE 0))
                 |-> pairs[i][2]]]

MemberTypeValues == {0, 1, 2, 3}

Members(memids, types) ==
    [memids |-> memids, types |-> types, roles_sid |-> [i \in 1..Len(memids) |-> 1]]

ViewInputs ==
    { [of |-> "elements", m |-> [primitivegroup |-> b]] : b \in Blocks }
      \cup { [of |-> "dense_nodes",
              m |-> DenseNodes([i \in 1..n |-> 1], [i \in 1..n |-> 0], [i \in 1..n |-> 0], kv)] :
                n \in DenseCounts, kv \in KeysVals }
      \cup { [of |-> "dense_nodes", m |-> DenseNodes(d, Reverse(d), Tail(d) \o <<1>>, <<>>)] :
                d \in DeltaSeqs \ {<<>>} }
      \cup { [of |-> "refs", m |-> WayMsg(10, d, "a")] : d \in DeltaSeqs }
      \cup { [of |-> "members", m |-> Members(d, t)] :
                d \in SeqsUpTo({1, 7}, MaxDeltas), t \in SeqsUpTo(MemberTypeValues, MaxDeltas) }
      \cup { [of |-> "tags", m |-> Tagged(p, short)] :
                p \in SeqsUpTo(TagPairs, MaxTags), short \in BOOLEAN }

\* The iterator the call under test returns.
NewIter(input) ==
    CASE input.of = "elements" -> BlockElementsIter_new(input.m)
      [] input.of = "dense_nodes" -> DenseNodeIter_new(input.m)
      [] input.of = "refs" -> WayRefIter_new(input.m)
      [] input.of = "members" -> RelMemberIter_new(input.m)
      [] input.of = "tags" -> TagIter_new(input.m)

InitViews ==
    /\ msg \in ViewInputs
    /\ iter = NewIter(msg)
    /\ out = <<>>
    /\ ret = [op |-> "new", at |-> 0, fault |-> FALSE, is |-> "Ok", val |-> <<>>]
    /\ FrameIdle
    /\ DecodeIdle
    /\ StatsIdle
    /\ AgainIdle
    /\ BuilderIdle
    /\ WriterIdle
    /\ OffsetsIdle
    /\ ElemIdle
    /\ IndexIdle

RECURSIVE TrailingNones(_)
TrailingNones(calls) ==
    IF calls = <<>> \/ calls[Len(calls)].is # "None" THEN 0
    ELSE 1 + TrailingNones(SubSeq(calls, 1, Len(calls) - 1))

\* The caller goes on until the program panics or MaxNones calls in a row
\* have returned None.
Callable ==
    /\ TrailingNones(out) < MaxNones
    /\ \A i \in 1..Len(out) : out[i].is # "Panic"

Call(r) ==
    /\ iter' = r.it
    /\ out' = Append(out, [is |-> r.is, val |-> r.val])
    /\ ret' = [op |-> "next", at |-> Len(out), fault |-> FALSE, is |-> r.is, val |-> r.val]
    /\ UNCHANGED <<msg, frameVars, decodeVars, elemVars, indexVars, offsetVars, writerVars, builderVars, againVars, statsVars>>

\* BlockElementsIter::next
ElementsNext ==
    /\ msg.of = "elements"
    /\ Callable
    /\ \E overflow_checks \in BOOLEAN :
         With(BlockElementsIter_next(iter, overflow_checks, 0), LAMBDA r :
           /\ iter' = r.it
           /\ out' = Append(out, [is |-> r.is, val |-> r.val, steps |-> r.steps,
                                   groups |-> Len(iter.groups)])
           /\ ret' = [op |-> "next", at |-> Len(out), fault |-> FALSE,
                       is |-> r.is, val |-> r.val])
    /\ UNCHANGED <<msg, frameVars, decodeVars, elemVars, indexVars, offsetVars, writerVars, builderVars, againVars, statsVars>>

\* DenseNodeIter::next
DenseNext ==
    /\ msg.of = "dense_nodes"
    /\ Callable
    /\ \E overflow_checks \in BOOLEAN : Call(DenseNodeIter_next(iter, overflow_checks))

\* WayRefIter::next
WayRefNext ==
    /\ msg.of = "refs"
    /\ Callable
    /\ \E overflow_checks \in BOOLEAN : Call(WayRefIter_next(iter, overflow_checks))

\* RelMemberIter::next
MemberNext ==
    /\ msg.of = "members"
    /\ Callable
    /\ \E overflow_checks \in BOOLEAN : Call(RelMemberIter_next(iter, overflow_checks))

\* TagIter::next
TagNext ==
    /\ msg.of = "tags"
    /\ Callable
    /\ Call(TagIter_next(StringTable, iter))

NextViews ==
    \/ ElementsNext
    \/ DenseNext
    \/ WayRefNext
    \/ MemberNext
    \/ TagNext

SpecViews == InitViews /\ [][NextViews]_vars

-----------------------------------------------------------------------------
(* Properties of the element views.                                        *)

RECURSIVE Sum(_, _)
Sum(d, i) == IF i = 0 THEN 0 ELSE Sum(d, i - 1) + d[i]

\* The calls that returned a value, in call order.
Values(calls) == SelectSeq(calls, LAMBDA c : c.is = "Some")

\* The values returned before the first None.
RECURSIVE UntilNone(_)
UntilNone(calls) ==
    IF calls = <<>> \/ Head(calls).is # "Some" THEN <<>>
    ELSE <<Head(calls).val>> \o UntilNone(Tail(calls))

\* The dense nodes of a message: one for each index that id, lat and lon have.
DenseCount(dense) == Min(Len(dense.id), Min(Len(dense.lat), Len(dense.lon)))

\* The elements of a group by kind and id: dense nodes, sparse nodes, ways,
\* relations.
GroupOrder(g) ==
    [i \in 1..DenseCount(g.dense) |-> [kind |-> "DenseNode", id |-> Sum(g.dense.id, i)]]
      \o [i \in 1..Len(g.nodes) |-> [kind |-> "Node", id |-> g.nodes[i].id]]
      \o [i \in 1..Len(g.ways) |-> [kind |-> "Way", id |-> g.ways[i].id]]
      \o [i \in 1..Len(g.relations) |-> [kind |-> "Relation", id |-> g.relations[i].id]]

BlockOrder(block) ==
    Concat([g \in 1..Len(block.primitivegroup) |-> GroupOrder(block.primitivegroup[g])])

KindAndId(calls) ==
    [i \in 1..Len(calls) |-> [kind |-> calls[i].val.kind, id |-> calls[i].val.val.id]]

IsPrefix(s, t) == Len(s) <= Len(t) /\ s = SubSeq(t, 1, Len(s))

\* C15: PrimitiveBlock::elements() yields, for each group in block order,
\* the group's dense nodes, then its sparse nodes, then its ways, then its
\* relations, each once; every call of next returns after at most five steps
\* for each group left and five more, and once next has returned None every
\* later call returns None.
C15_ElementsInGroupOrder ==
    msg.of = "elements"
        => /\ IsPrefix(KindAndId(Values(out)), BlockOrder(msg.m))
           /\ \A i \in 1..Len(out) :
                /\ out[i].is \in {"Some", "None"}
                /\ out[i].steps <= 5 * out[i].groups + 5
                /\ out[i].is = "None"
                     => /\ KindAndId(Values(SubSeq(out, 1, i))) = BlockOrder(msg.m)
                        /\ \A j \in i..Len(out) : out[j].is = "None"

\* A block of two groups was walked to its end and next called once more:
\* elements of three kinds came out, the last one of the second group.
C15_Witness ==
    /\ msg.of = "elements"
    /\ Len(msg.m.primitivegroup) = 2
    /\ TrailingNones(out) = 2
    /\ KindAndId(Values(out)) = BlockOrder(msg.m)
    /\ {"DenseNode", "Node", "Relation"} \subseteq
          { BlockOrder(msg.m)[i].kind : i \in 1..Len(BlockOrder(msg.m)) }
    /\ msg.m.primitivegroup[2].relations # <<>>
    /\ \E i \in 1..Len(out) : out[i].steps > 5

\* The runs of keys_vals: (key, value) pairs up to a 0 where a key is due;
\* an index without a partner at the end of the array is no pair.
RECURSIVE Runs(_, _)
Runs(kv, run) ==
    IF kv = <<>> THEN (IF run = <<>> THEN <<>> ELSE <<run>>)
    ELSE IF Head(kv) = 0 THEN <<run>> \o Runs(Tail(kv), <<>>)
    ELSE IF Len(kv) = 1 THEN <<run>>
    ELSE Runs(Tail(Tail(kv)), Append(run, <<kv[1], kv[2]>>))

RunOf(kv, i) == IF i <= Len(Runs(kv, <<>>)) THEN Runs(kv, <<>>)[i] ELSE <<>>

\* C16: the tags of the i-th dense node that DenseNodeIter yields are the
\* (key, value) pairs of the i-th 0-terminated run of keys_vals, where the
\* last run may lack its terminator and a node past the last run has no tags;
\* no pair has key index 0.
C16_DenseTagsAreRuns ==
    msg.of = "dense_nodes"
        => \A i \in 1..Len(out) :
             out[i].is = "Some"
               => /\ DenseRawTagIter(out[i].val.keys_vals_indices) = RunOf(msg.m.keys_vals, i)
                  /\ \A k \in 1..Len(DenseRawTagIter(out[i].val.keys_vals_indices)) :
                       DenseRawTagIter(out[i].val.keys_vals_indices)[k][1] # 0

\* Three dense nodes over keys_vals 1 2 0 1 2: the first two have the tag
\* (1, 2), the second run has no terminator, the third node has no tags.
C16_Witness ==
    /\ msg.of = "dense_nodes"
    /\ msg.m.keys_vals = <<1, 2, 0, 1, 2>>
    /\ Len(out) >= 3
    /\ out[3].is = "Some"
    /\ DenseRawTagIter(out[1].val.keys_vals_indices) = << <<1, 2>> >>
    /\ DenseRawTagIter(out[2].val.keys_vals_indices) = << <<1, 2>> >>
    /\ DenseRawTagIter(out[3].val.keys_vals_indices) = <<>>

\* C17: the i-th value a delta decoder produces (id, lat and lon of
\* DenseNodeIter, Way::refs(), member_id of Relation::members()) is
\* d[0] + ... + d[i] in i64 arithmetic, the accumulator starting at 0.
C17_DeltaDecoding ==
    \A i \in 1..Len(out) :
      out[i].is = "Some"
        => /\ msg.of = "dense_nodes"
                => /\ out[i].val.id = WrapI64(Sum(msg.m.id, i))
                   /\ out[i].val.lat = WrapI64(Sum(msg.m.lat, i))
                   /\ out[i].val.lon = WrapI64(Sum(msg.m.lon, i))
           /\ msg.of = "refs" => out[i].val = WrapI64(Sum(msg.m.refs, i))
           /\ msg.of = "members" => out[i].val.member_id = WrapI64(Sum(msg.m.memids, i))

\* The refs 7, 4, 5 came out of the deltas 7, -3, 1.
C17_Witness ==
    /\ msg.of = "refs"
    /\ msg.m.refs = <<7, -3, 1>>
    /\ Len(out) = 3
    /\ out[1].val = 7
    /\ out[2].val = 4
    /\ out[3].is = "Some"
    /\ out[3].val = 5

\* The pairs of keys and vals whose two indices name UTF-8 strings of the
\* stringtable.
ValidPairs(s, m) ==
    LET n == Min(Len(m.keys), Len(m.vals))
        ok(i) == /\ str_from_stringtable(s, m.keys[i]).is = "Ok"
                 /\ str_from_stringtable(s, m.vals[i]).is = "Ok"
        RECURSIVE from(_)
        from(i) ==
            IF i > n THEN <<>>
            ELSE (IF ok(i) THEN << <<s[m.keys[i] + 1], s[m.vals[i] + 1]>> >> ELSE <<>>)
                   \o from(i + 1)
    IN from(1)

\* C18: iterating tags() to its first None yields every pair whose indices
\* are valid, in order, and leaves out only the pairs with an index that is
\* out of bounds or not UTF-8.
C18_InvalidPairSkipped ==
    (msg.of = "tags" /\ \E i \in 1..Len(out) : out[i].is = "None")
        => UntilNone(out) = ValidPairs(StringTable, msg.m)

\* The partial sums of the first i deltas fit in i64.
NoOverflow(d, i) == \A k \in 1..i : WrapI64(Sum(d, k)) = Sum(d, k)

\* C19: for a member whose type is none of NODE, WAY and RELATION the call
\* of next does not abort the program and does not return the member with a
\* known type.
C19_UnknownMemberType ==
    msg.of = "members"
        => \A i \in 1..Len(out) :
             ( /\ i <= Len(msg.m.types)
               /\ i <= Len(msg.m.memids)
               /\ msg.m.types[i] \notin {0, 1, 2}
               /\ NoOverflow(msg.m.memids, i) )
                 => /\ out[i].is # "Panic"
                    /\ out[i].is = "Some"
                         => out[i].val.member_type \notin {"Node", "Way", "Relation"}

-----------------------------------------------------------------------------
(* BlobWriter (writer.rs), and a BlobReader over the bytes it wrote.       *)

\* BlobEncoding
Encodings == { [kind |-> "Raw", level |-> 0], [kind |-> "Zlib", level |-> 0],
               [kind |-> "Zlib", level |-> 9] }

\* BlobType::as_str
as_str(blob_type) ==
    CASE blob_type = "OsmHeader" -> "OSMHeader"
      [] blob_type = "OsmData" -> "OSMData"

\* Message::write_to_writer of a BlobHeader in the layout of the model.
BlobHeaderBytes(header) ==
    << CASE header.type = "OSMHeader" -> 1
         [] header.type = "OSMData" -> 2
         [] OTHER -> 3,
       header.datasize % 128 >>

\* Message::write_to_writer of a Blob: the fields in the order of their
\* numbers, raw, raw_size, zlib_data.
BlobBytes(blob) ==
    (IF blob.has_raw THEN <<1, blob.raw.len>> \o blob.raw.data ELSE <<>>)
      \o (IF blob.has_raw_size THEN <<4, blob.raw_size>> ELSE <<>>)
      \o (IF blob.has_zlib_data
          THEN <<2, blob.zlib_data.len>> \o blob.zlib_data.data
          ELSE <<>>)

\* Message::compute_size
compute_size(bytes) == Len(bytes)

\* Message::write_to_writer of a HeaderBlock or PrimitiveBlock: the inverse
\* of parse_message on the blocks of the model.
BlockBytes(block) ==
    IF block.of = "HeaderBlock"
    THEN (IF block.empty THEN <<>> ELSE <<HeaderBlockByte>>)
    ELSE << CHOOSE i \in DOMAIN BlockTable : BlockTable[i] = block.msg >>

\* BlobWriter::encode_block_data
encode_block_data(block_data, encoding) ==
    IF Len(block_data) >= MAX_BLOB_MESSAGE_SIZE
    THEN [is |-> "Err", val |-> MessageTooBig(Len(block_data))]
    ELSE IF encoding.kind = "Raw"
    THEN [is |-> "Ok",
          val |-> [has_raw |-> TRUE, raw |-> Bytes(block_data),
                   has_zlib_data |-> FALSE, zlib_data |-> NoBytes,
                   has_raw_size |-> TRUE, raw_size |-> Len(block_data)]]
    ELSE IF encoding.level >= 10
    THEN [is |-> "Panic", val |-> <<>>]
    ELSE [is |-> "Ok",
          val |-> [has_raw |-> FALSE, raw |-> NoBytes,
                   has_zlib_data |-> TRUE, zlib_data |-> Bytes(Deflate(block_data)),
                   has_raw_size |-> TRUE, raw_size |-> Len(block_data)]]

\* write_blob_raw that writes the header size in little-endian byte order.
write_blob_raw_le(w, header, blob) ==
    IF compute_size(BlobBytes(blob)) # header.datasize
    THEN [w |-> w, is |-> "Panic", val |-> <<>>]
    ELSE
      LET header_size == compute_size(BlobHeaderBytes(header)) IN
      IF header_size >= MAX_BLOB_HEADER_SIZE
      THEN [w |-> w, is |-> "Err", val |-> HeaderTooBig(header_size)]
      ELSE [w |-> w \o Reverse(BE32(header_size)) \o BlobHeaderBytes(header) \o BlobBytes(blob),
            is |-> "Ok", val |-> <<>>]

\* BlobWriter::write_blob_raw on a writer that holds the bytes w and does
\* not fail: [w, is, val]
write_blob_raw(w, header, blob) ==
    IF compute_size(BlobBytes(blob)) # header.datasize
    THEN [w |-> w, is |-> "Panic", val |-> <<>>]
    ELSE
      LET header_size == compute_size(BlobHeaderBytes(header)) IN
      IF header_size >= MAX_BLOB_HEADER_SIZE
      THEN [w |-> w, is |-> "Err", val |-> HeaderTooBig(header_size)]
      ELSE [w |-> w \o BE32(header_size) \o BlobHeaderBytes(header) \o BlobBytes(blob),
            is |-> "Ok", val |-> <<>>]

\* BlobWriter::write_block_message
write_block_message(w, block, blob_type, encoding) ==
    LET block_data == BlockBytes(block)
        blob == encode_block_data(block_data, encoding)
    IN
    IF blob.is # "Ok" THEN [w |-> w, is |-> blob.is, val |-> blob.val]
    ELSE write_blob_raw(w,
                        [type |-> as_str(blob_type),
                         datasize |-> compute_size(BlobBytes(blob.val))],
                        blob.val)

HeaderBlocks == { [of |-> "HeaderBlock", empty |-> e, msg |-> <<>>] : e \in BOOLEAN }

PrimitiveBlocks ==
    { [of |-> "PrimitiveBlock", empty |-> FALSE, msg |-> BlockTable[i]] :
        i \in DOMAIN BlockTable }

InitWriter ==
    /\ file = [recs |-> <<>>, tail |-> 0]
    /\ stream = <<>>
    /\ under = "BlobWriter::new"
    /\ reader = BlobReader_new
    /\ mmap_reader = MmapBlobReader_new
    /\ first_err = None
    /\ err_before = None
    /\ written = <<>>
    /\ got = <<>>
    /\ ret = [op |-> "new", at |-> 0, fault |-> FALSE, is |-> "Ok", val |-> <<>>]
    /\ DecodeIdle
    /\ StatsIdle
    /\ AgainIdle
    /\ BuilderIdle
    /\ OffsetsIdle
    /\ ViewsIdle
    /\ ElemIdle
    /\ IndexIdle

Write(block, blob_type, encoding, op) ==
    /\ under = "BlobWriter::new"
    /\ Len(written) < MaxRecords
    /\ With(write_block_message(stream, block, blob_type, encoding), LAMBDA r :
         /\ stream' = r.w
         /\ ret' = [op |-> op, at |-> Len(stream), fault |-> FALSE,
                     is |-> r.is, val |-> r.val]
         /\ written' = IF r.is = "Ok"
                       THEN Append(written, [blob_type |-> blob_type, block |-> block,
                                             encoding |-> encoding])
                       ELSE written)
    /\ UNCHANGED <<file, under, reader, mmap_reader, first_err, err_before, got,
                   decodeVars, elemVars, indexVars, offsetVars, viewVars, builderVars, againVars, statsVars>>

\* BlobWriter::write_header_block
WriteHeaderBlock ==
    \E block \in HeaderBlocks, encoding \in Encodings :
        Write(block, "OsmHeader", encoding, "write_header_block")

\* BlobWriter::write_primitive_block
WritePrimitiveBlock ==
    \E block \in PrimitiveBlocks, encoding \in Encodings :
        Write(block, "OsmData", encoding, "write_primitive_block")

\* BlobReader::new or new_seekable over the bytes written.
OpenReader ==
    /\ under = "BlobWriter::new"
    /\ \E ctor \in {"BlobReader::new", "BlobReader::new_seekable"} :
         /\ under' = ctor
         /\ reader' = IF ctor = "BlobReader::new_seekable" THEN new_seekable ELSE BlobReader_new
         /\ ret' = [op |-> "open", at |-> 0, fault |-> FALSE, is |-> "Ok", val |-> <<>>]
    /\ UNCHANGED <<file, stream, mmap_reader, first_err, err_before, writerVars,
                   decodeVars, elemVars, indexVars, offsetVars, viewVars, builderVars, againVars, statsVars>>

\* BlobReader::next on the written bytes
ReadBack ==
    /\ IsBlobReader
    /\ TrailingNones(got) < MaxNones
    /\ \E overflow_checks \in BOOLEAN :
         With(BlobReader_next(stream, reader, FALSE, overflow_checks), LAMBDA r :
           /\ reader' = r.rd
           /\ ret' = Returned("next", reader.reader, FALSE, r)
           /\ got' = Append(got, [is |-> r.is, val |-> r.val]))
    /\ UNCHANGED <<file, stream, under, mmap_reader, first_err, err_before, written,
                   decodeVars, elemVars, indexVars, offsetVars, viewVars, builderVars, againVars, statsVars>>

NextWriter ==
    \/ WriteHeaderBlock
    \/ WritePrimitiveBlock
    \/ OpenReader
    \/ ReadBack

SpecWriter == InitWriter /\ [][NextWriter]_vars

\* The blobs read back so far.
Blobs == [i \in 1..Len(SelectSeq(got, LAMBDA c : c.is = "Ok")) |->
            SelectSeq(got, LAMBDA c : c.is = "Ok")[i].val]

\* C20: a BlobReader over the bytes of the blocks written returns one blob
\* for each block, in the order of the writes, with the type it was written
\* with and a payload of datasize bytes, and then None; no call fails.
C20_WriterRoundTrip ==
    IsBlobReader
        => /\ Len(Blobs) <= Len(written)
           /\ \A i \in 1..Len(got) :
                /\ got[i].is \in {"Ok", "None"}
                /\ (got[i].is = "None") = (i > Len(written))
           /\ \A i \in 1..Len(Blobs) :
                /\ get_type(Blobs[i]) = written[i].blob_type
                /\ compute_size(BlobBytes(Blobs[i].blob)) = Blobs[i].header.datasize
                /\ Blobs[i].blob.raw_size = Len(BlockBytes(written[i].block))
                /\ Blobs[i].blob.has_raw = (written[i].encoding.kind = "Raw")
           /\ (ret.op = "next" /\ ret.is = "None") => reader.last_blob_ok

\* A header block and a primitive block, one raw and one compressed, were
\* read back and the reader ended.
C20_Witness ==
    /\ IsBlobReader
    /\ Len(written) = 2
    /\ written[1].blob_type = "OsmHeader"
    /\ written[2].blob_type = "OsmData"
    /\ written[1].encoding.kind # written[2].encoding.kind
    /\ Len(Blobs) = 2
    /\ get_type(Blobs[2]) = "OsmData"
    /\ ret.op = "next"
    /\ ret.is = "None"

-----------------------------------------------------------------------------
(* BlockBuilder, NodeGroupBuilder and NodeBuilder (writer.rs).             *)
(*                                                                         *)
(* An f64 of degrees is kept as an exact fraction [num, den], den > 0.     *)
(* string_map is the set of its (key, index) pairs.                        *)

MaxCalls == 3

\* BlockBuilder::new: a block of default granularity and offsets whose
\* stringtable holds the blank entry, and an empty string_map.
BlockBuilder_new ==
    [block |-> [stringtable |-> << <<>> >>,
                primitivegroup |-> <<>>,
                granularity |-> 100, lat_offset |-> 0, lon_offset |-> 0],
     string_map |-> {}]

\* BlockBuilder::add_string_table_entry; the index returned is 0-based.
add_string_table_entry(b, entry) ==
    IF \E e \in b.string_map : e.key = entry
    THEN [b |-> b, val |-> (CHOOSE e \in b.string_map : e.key = entry).idx]
    ELSE With(Append(b.block.stringtable, entry), LAMBDA st :
           [b |-> [b EXCEPT !.block.stringtable = st,
                            !.string_map = @ \cup {[key |-> entry, idx |-> Len(st) - 1]}],
            val |-> Len(st) - 1])

\* f64::round of num / den: to the nearest integer, halves away from zero.
round(num, den) ==
    IF num >= 0 THEN (2 * num + den) \div (2 * den)
    ELSE -((2 * (-num) + den) \div (2 * den))

\* NodeBuilder::latlon: (lat * 1e-7).round() as i64, and the same for lon.
latlon(node, lat, lon) ==
    [node EXCEPT !.lat = round(lat.num, lat.den * 10 ^ 7),
                 !.lon = round(lon.num, lon.den * 10 ^ 7)]

\* NodeBuilder::add_tag
add_tag(b, node, key, val) ==
    With(add_string_table_entry(b, key), LAMBDA k :
      With(add_string_table_entry(k.b, val), LAMBDA v :
        [b |-> v.b,
         node |-> [node EXCEPT !.keys = Append(@, k.val), !.vals = Append(@, v.val)],
         key |-> k.val,
         val |-> v.val]))

\* Node::nano_lat and Node::nano_lon
nano_lat(block, osmnode) == block.lat_offset + block.granularity * osmnode.lat

nano_lon(block, osmnode) == block.lon_offset + block.granularity * osmnode.lon

Entries == {<<>>, <<97>>, <<98>>}

Degrees == { [num |-> n, den |-> d] : n \in {-2, 1}, d \in {1, 3} }

Longitudes == { [num |-> 1, den |-> 1], [num |-> -1, den |-> 3] }

InitBuilder ==
    /\ builder = BlockBuilder_new
    /\ made = <<>>
    /\ ret = [op |-> "new", at |-> 0, fault |-> FALSE, is |-> "Ok", val |-> <<>>]
    /\ FrameIdle
    /\ DecodeIdle
    /\ StatsIdle
    /\ AgainIdle
    /\ ElemIdle
    /\ IndexIdle
    /\ OffsetsIdle
    /\ ViewsIdle
    /\ WriterIdle

\* One call of add_string_table_entry.
AddStringTableEntry ==
    /\ builder # <<>>
    /\ Len(made) < MaxCalls
    /\ \E entry \in Entries :
         With(add_string_table_entry(builder, entry), LAMBDA r :
           /\ builder' = r.b
           /\ made' = Append(made, [op |-> "add_string_table_entry",
                                      given |-> <<entry>>, returned |-> <<r.val>>])
           /\ ret' = [op |-> "add_string_table_entry", at |-> 0, fault |-> FALSE,
                      is |-> "Ok", val |-> r.val])
    /\ UNCHANGED <<frameVars, decodeVars, elemVars, indexVars, offsetVars, viewVars,
                   writerVars, againVars, statsVars>>

\* block_builder.node_group(), node_builder().id(id).latlon(lat, lon), with
\* or without one add_tag(key, val), then NodeBuilder::finish and
\* NodeGroupBuilder::finish.
BuildNode ==
    /\ builder # <<>>
    /\ Len(made) < MaxCalls
    /\ \E lat \in Degrees, lon \in Longitudes, tags \in {<<>>, <<<<97>>, <<>>>>} :
         With(latlon([id |-> Len(made), lat |-> 0, lon |-> 0, keys |-> <<>>, vals |-> <<>>],
                     lat, lon), LAMBDA n :
           With(IF tags = <<>> THEN [b |-> builder, node |-> n, key |-> 0, val |-> 0]
                ELSE add_tag(builder, n, tags[1], tags[2]), LAMBDA r :
             /\ builder' = [r.b EXCEPT !.block.primitivegroup =
                                         Append(@, [nodes |-> <<r.node>>])]
             /\ made' = Append(made, [op |-> "latlon",
                                        given |-> <<lat, lon>> \o tags,
                                        returned |-> IF tags = <<>> THEN <<>>
                                                     ELSE <<r.key, r.val>>])
             /\ ret' = [op |-> "latlon", at |-> 0, fault |-> FALSE,
                        is |-> "Ok", val |-> <<>>]))
    /\ UNCHANGED <<frameVars, decodeVars, elemVars, indexVars, offsetVars, viewVars,
                   writerVars, againVars, statsVars>>

NextBuilder ==
    \/ AddStringTableEntry
    \/ BuildNode

SpecBuilder == InitBuilder /\ [][NextBuilder]_vars

\* The (string, index) pairs that add_string_table_entry has returned so far,
\* from direct calls and from add_tag.
Returned_indices ==
    { [key |-> made[i].given[1], idx |-> made[i].returned[1]] :
        i \in { j \in 1..Len(made) : made[j].op = "add_string_table_entry" } }
    \cup
    { [key |-> made[i].given[3], idx |-> made[i].returned[1]] :
        i \in { j \in 1..Len(made) : made[j].op = "latlon" /\ Len(made[j].given) = 4 } }
    \cup
    { [key |-> made[i].given[4], idx |-> made[i].returned[2]] :
        i \in { j \in 1..Len(made) : made[j].op = "latlon" /\ Len(made[j].given) = 4 } }

\* C21: after any sequence of add_string_table_entry calls, every call
\* returned an index >= 1 at which the stringtable holds the given string,
\* two calls returned the same index exactly when their strings are equal,
\* index 0 still holds the blank entry, and no two slots of the stringtable
\* hold the same byte string.
C21_StringTableEntries ==
    builder # <<>> =>
      LET st == builder.block.stringtable IN
      /\ \A c \in Returned_indices :
           /\ c.idx >= 1
           /\ c.idx < Len(st)
           /\ st[c.idx + 1] = c.key
      /\ \A c, d \in Returned_indices : (c.idx = d.idx) = (c.key = d.key)
      /\ st[1] = <<>>
      /\ \A i, j \in 1..Len(st) : st[i] = st[j] => i = j

\* The node that call i built, as it stands in the block.
NodeOf(i) ==
    builder.block.primitivegroup[
        Cardinality({ j \in 1..i : made[j].op = "latlon" })].nodes[1]

\* C22: a node built with latlon(lat, lon) in a block of granularity 100 and
\* zero offsets reads back with nano_lat = 100 * round(lat * 10^7) and
\* nano_lon = 100 * round(lon * 10^7).
C22_LatLonRoundTrip ==
    builder # <<>> =>
      \A i \in 1..Len(made) :
        made[i].op = "latlon" =>
          /\ nano_lat(builder.block, NodeOf(i))
               = 100 * round(made[i].given[1].num * 10 ^ 7, made[i].given[1].den)
          /\ nano_lon(builder.block, NodeOf(i))
               = 100 * round(made[i].given[2].num * 10 ^ 7, made[i].given[2].den)

-----------------------------------------------------------------------------
(* The loop of create_index, one next_header_skip_blob step at a time, over *)
(* files whose headers declare any datasize.  ret.is = "Running" while the *)
(* call is inside the loop.                                                *)

\* The cap on the entries the model lets the index grow to.
MaxIndex == 4

\* A record whose header declares datasize d for a payload of two bytes.
Declaring(d) == BE32(2) \o <<2, d % 128>> \o RawPayload(<<>>)

\* datasize: the payload, zero, -1, -(4 + header_size), and one less.
SkipRecords ==
    { HeaderRecord, Declaring(2), Declaring(0), Declaring(-1), Declaring(-6),
      Declaring(-7) }

SkipFiles == [recs : SeqsUpTo(SkipRecords, MaxRecords), tail : {0}]

InitSkip ==
    /\ file \in SkipFiles
    /\ stream = Layout(file)
    /\ under = "IndexedReader::new"
    /\ reader = new_seekable
    /\ mmap_reader = MmapBlobReader_new
    /\ first_err = None
    /\ err_before = None
    /\ ret = [op |-> "new", at |-> 0, fault |-> FALSE, is |-> "Ok", val |-> <<>>]
    /\ index = <<>>
    /\ emitted = <<>>
    /\ filter = "none"
    /\ loaded = <<>>
    /\ DecodeIdle
    /\ StatsIdle
    /\ AgainIdle
    /\ ElemIdle
    /\ OffsetsIdle
    /\ ViewsIdle
    /\ WriterIdle
    /\ BuilderIdle

Running == ret.op = "create_index" /\ ret.is = "Running"

\* create_index up to its loop: return at once when the index holds an
\* entry, else seek to the beginning.
CreateIndexBegin ==
    /\ under = "IndexedReader::new"
    /\ ~Running
    /\ IF index # <<>>
       THEN /\ ret' = [op |-> "create_index", at |-> reader.reader, fault |-> FALSE,
                       is |-> "Ok", val |-> <<>>]
            /\ reader' = reader
       ELSE /\ ret' = [op |-> "create_index", at |-> reader.reader, fault |-> FALSE,
                       is |-> "Running", val |-> <<>>]
            /\ reader' = BlobReader_seek(reader, 0).rd
    /\ UNCHANGED <<file, stream, under, mmap_reader, first_err, err_before, indexVars,
                   decodeVars, elemVars, offsetVars, viewVars, writerVars, builderVars, againVars, statsVars>>

\* One turn of the while loop of create_index.
CreateIndexStep ==
    /\ Running
    /\ Len(index) < MaxIndex
    /\ \E fault \in BOOLEAN :
         With(next_header_skip_blob(stream, reader, fault), LAMBDA r :
           /\ reader' = r.rd
           /\ index' = IF r.is = "Ok"
                       THEN Append(index, BlobInfo(r.val.offset[1],
                                                   SimpleBlobType(r.val.header), None))
                       ELSE index
           /\ ret' = [op |-> "create_index", at |-> reader.reader, fault |-> fault,
                      is |-> CASE r.is = "Ok" -> "Running"
                               [] r.is = "None" -> "Ok"
                               [] OTHER -> r.is,
                      val |-> IF r.is = "Err" THEN r.val ELSE <<>>])
    /\ UNCHANGED <<file, stream, under, mmap_reader, first_err, err_before, emitted,
                   filter, loaded,
                   decodeVars, elemVars, offsetVars, viewVars, writerVars, builderVars, againVars, statsVars>>

NextSkip ==
    \/ CreateIndexBegin
    \/ CreateIndexStep

SpecSkip == InitSkip /\ [][NextSkip]_vars

\* The loop runs in the calling thread: inside the loop the next turn is
\* always taken.
SpecSkipFair == SpecSkip /\ WF_vars(CreateIndexStep)

\* C26: for every file and every datasize a header declares, zero and
\* negative values included, a call of create_index leaves its loop after
\* finitely many next_header_skip_blob steps, and the index never holds more
\* entries than the file has records.
C26_CreateIndexTerminates ==
    /\ Running ~> ~Running
    /\ [](Len(index) <= Len(file.recs))

-----------------------------------------------------------------------------
(* Repeated calls on one IndexedReader, with the first successful          *)
(* read_ways_and_deps call kept for comparison.                            *)

AgainRecords ==
    { Holds(HeaderRecord, None, <<>>),
      Holds(Record(2, RawPayload(<<1>>)), None, BlockTable[1]),
      Holds(Record(2, ZlibPayload(<<2>>)), None, BlockTable[2]),
      Holds(Record(2, RawPayload(<<4>>)), None, BlockTable[4]) }

AgainFiles == [recs : SeqsUpTo(AgainRecords, MaxRecords), tail : {0}]

InitAgain ==
    /\ file \in AgainFiles
    /\ stream = LayoutHeld(file)
    /\ under = "IndexedReader::new"
    /\ reader = new_seekable
    /\ mmap_reader = MmapBlobReader_new
    /\ first_err = None
    /\ err_before = None
    /\ ret = [op |-> "new", at |-> 0, fault |-> FALSE, is |-> "Ok", val |-> <<>>]
    /\ index = <<>>
    /\ emitted = <<>>
    /\ filter = "none"
    /\ loaded = <<>>
    /\ first_call = None
    /\ DecodeIdle
    /\ StatsIdle
    /\ ElemIdle
    /\ OffsetsIdle
    /\ ViewsIdle
    /\ WriterIdle
    /\ BuilderIdle

\* IndexedReader::read_ways_and_deps, the first call that returns Ok kept.
ReadWaysAndDepsAgain ==
    /\ \E P \in Filters, fault_at \in FaultAts :
         With(read_ways_and_deps(stream, reader, index, P, fault_at), LAMBDA r :
           /\ Called("read_ways_and_deps", fault_at, r)
           /\ emitted' = r.out
           /\ loaded' = r.loaded
           /\ filter' = P
           /\ first_call' = IF first_call = None /\ r.is = "Ok"
                            THEN Some([filter |-> P, out |-> r.out, loaded |-> r.loaded])
                            ELSE first_call)
    /\ UNCHANGED <<file, stream, under, mmap_reader, decodeVars, elemVars, offsetVars,
                   viewVars, writerVars, builderVars, statsVars>>

NextAgain ==
    \/ CreateIndex
    \/ ReadWaysAndDepsAgain
    \/ ForEachNode

SpecAgain == InitAgain /\ [][NextAgain]_vars

\* C27: on one IndexedReader over an unchanged file, a call of
\* read_ways_and_deps that returns Ok hands to the callback the same sequence
\* of elements as the first call with that predicate that returned Ok,
\* whatever for_each_node calls were made in between, although it reads
\* fewer blobs.
C27_SameElementsAgain ==
    (ret.op = "read_ways_and_deps" /\ ret.is = "Ok" /\ IsSome(first_call)
       /\ filter = first_call[1].filter)
        => /\ emitted = first_call[1].out
           /\ Len(loaded) <= Len(first_call[1].loaded)

\* A later call delivered a way and a node of the first call again after a
\* for_each_node call recorded ranges, and read fewer blobs than the first.
C27_Witness ==
    /\ ret.op = "read_ways_and_deps"
    /\ ret.is = "Ok"
    /\ IsSome(first_call)
    /\ filter = first_call[1].filter
    /\ Len(loaded) < Len(first_call[1].loaded)
    /\ OfKind(emitted, {"Way"}) # {}
    /\ OfKind(emitted, NodeKinds) # {}
    /\ \E i \in 1..Len(index) :
         IsSome(index[i].id_ranges) /\ index[i].id_ranges[1].way_ids = None

-----------------------------------------------------------------------------
(* BlobRangeReader (par_reader.rs) over a std::io::BufReader.  The         *)
(* BufReader is [inner, buf, pos]: the position of the underlying reader,  *)
(* the bytes its buffer was filled with, which end at inner, and how many  *)
(* of them were consumed.  Positions count from 0.                         *)

\* The capacity of the BufReader.
BufCapacity == 3

\* The bytes of the source from position a up to position b, excluded.
Slice(src, a, b) == IF a >= Min(b, Len(src)) THEN <<>> ELSE SubSeq(src, a + 1, Min(b, Len(src)))

\* BufReader::buffer: the bytes filled and not yet consumed.
buffer(r) == SubSeq(r.buf, r.pos + 1, Len(r.buf))

\* BufReader::stream_position: the position of the underlying reader less
\* the bytes of the buffer not yet consumed.
stream_position(r) == r.inner - Len(buffer(r))

\* BufReader::consume
consume(r, amt) == [r EXCEPT !.pos = Min(r.pos + amt, Len(r.buf))]

\* BufReader::seek(SeekFrom::Start(n)): seeks the underlying reader and
\* discards the buffer.
seek_start(r, n) == [inner |-> n, buf |-> <<>>, pos |-> 0]

\* BufReader::read of at most k bytes: past an empty buffer a read of at
\* least the capacity goes to the underlying reader, any other read fills
\* the buffer when it is empty and copies from it.
read(src, r, k) ==
    IF r.pos = Len(r.buf) /\ k >= BufCapacity
    THEN With(Slice(src, r.inner, r.inner + k), LAMBDA bytes :
           [r |-> [inner |-> r.inner + Len(bytes), buf |-> <<>>, pos |-> 0], bytes |-> bytes])
    ELSE With(IF r.pos >= Len(r.buf)
              THEN With(Slice(src, r.inner, r.inner + BufCapacity), LAMBDA new :
                     [inner |-> r.inner + Len(new), buf |-> new, pos |-> 0])
              ELSE r, LAMBDA filled :
           With(Min(k, Len(filled.buf) - filled.pos), LAMBDA m :
             [r |-> consume(filled, m),
              bytes |-> SubSeq(filled.buf, filled.pos + 1, filled.pos + m)]))

\* Read::read_exact on the BufReader: read until size bytes are there; a
\* read of no byte is an UnexpectedEof error.
RECURSIVE read_exact(_, _, _, _)
read_exact(src, r, size, acc) ==
    IF Len(acc) = size THEN [r |-> r, is |-> "Ok", val |-> acc]
    ELSE With(read(src, r, size - Len(acc)), LAMBDA n :
           IF n.bytes = <<>>
           THEN [r |-> n.r, is |-> "Err", val |-> IoError("UnexpectedEof")]
           ELSE read_exact(src, n.r, size, acc \o n.bytes))

BlobRange(data_start, data_end) == [data_start |-> data_start, data_end |-> data_end]

\* BlobRangeReader::new; index and end_index count from 0.
BlobRangeReader_new(source, blob_ranges, start_idx, end_idx) ==
    [reader |-> source,
     index |-> start_idx,
     end_index |-> Min(end_idx, Len(blob_ranges))]

\* <BlobRangeReader as Iterator>::next
BlobRangeReader_next(src, blob_ranges, it) ==
    IF it.index >= it.end_index \/ it.index >= Len(blob_ranges)
    THEN [it |-> it, is |-> "None", val |-> <<>>]
    ELSE
      With(blob_ranges[it.index + 1], LAMBDA blob_range :
        LET target_start == blob_range.data_start
            size == blob_range.data_end - target_start
            pos_after_buffer == stream_position(it.reader)
            buffer_len == Len(buffer(it.reader))
            pos_at_buffer_start == IF pos_after_buffer < buffer_len THEN 0
                                   ELSE pos_after_buffer - buffer_len
            is_in_buffer == target_start >= pos_at_buffer_start
                              /\ target_start < pos_after_buffer
        IN
        With(read_exact(src,
                        IF is_in_buffer
                        THEN consume(it.reader, target_start - pos_at_buffer_start)
                        ELSE seek_start(it.reader, target_start),
                        size, <<>>), LAMBDA rd :
          [it |-> [it EXCEPT !.reader = rd.r, !.index = it.index + 1],
           is |-> rd.is,
           val |-> IF rd.is = "Ok" THEN [data |-> rd.val] ELSE rd.val]))

\* The source: bytes that differ from place to place.
SourceLen == 8

Source == [i \in 1..SourceLen |-> i]

\* The data ranges of the blobs of a file, as RawBlobReader records them.
RangeLists ==
    { <<BlobRange(1, 3), BlobRange(4, 8)>>,
      <<BlobRange(2, 3), BlobRange(3, 3), BlobRange(5, 7)>>,
      <<BlobRange(0, 6)>> }

\* The states a BufReader over the source can be in: the buffer is empty,
\* or was filled to its capacity, or with what was left of the source.
BufReaders ==
    UNION { { [inner |-> nf[1], buf |-> Slice(Source, nf[1] - nf[2], nf[1]), pos |-> p] :
                p \in 0..nf[2] } :
            nf \in { x \in (0..SourceLen) \X (0..BufCapacity) :
                       /\ x[2] <= x[1]
                       /\ x[2] \in {0, BufCapacity} \/ x[1] = SourceLen } }

RangeInputs ==
    { [of |-> "blob_ranges", source |-> r, blob_ranges |-> l,
       start_idx |-> a, end_idx |-> b] :
        r \in BufReaders, l \in RangeLists, a \in 0..2, b \in 0..4 }

InitRanges ==
    /\ msg \in RangeInputs
    /\ iter = BlobRangeReader_new(msg.source, msg.blob_ranges, msg.start_idx, msg.end_idx)
    /\ out = <<>>
    /\ ret = [op |-> "new", at |-> 0, fault |-> FALSE, is |-> "Ok", val |-> <<>>]
    /\ FrameIdle
    /\ DecodeIdle
    /\ StatsIdle
    /\ ElemIdle
    /\ IndexIdle
    /\ OffsetsIdle
    /\ WriterIdle
    /\ BuilderIdle
    /\ AgainIdle

\* BlobRangeReader::next
RangeNext ==
    /\ msg.of = "blob_ranges"
    /\ Callable
    /\ Call(BlobRangeReader_next(Source, msg.blob_ranges, iter))

NextRanges == RangeNext

SpecRanges == InitRanges /\ [][NextRanges]_vars

\* C29: the k-th call of next visits index start_idx + k - 1 as long as that
\* is below min(end_idx, blob_ranges.len()) and returns the source bytes at
\* [data_start, data_end) of that range, whatever the position and the
\* buffered content of the BufReader; every later call returns None.
C29_RangeBytes ==
    (msg # <<>> /\ msg.of = "blob_ranges") =>
      \A k \in 1..Len(out) :
        LET i == msg.start_idx + k - 1 IN
        IF i < Min(msg.end_idx, Len(msg.blob_ranges))
        THEN /\ out[k].is = "Ok"
             /\ out[k].val.data = Slice(Source, msg.blob_ranges[i + 1].data_start,
                                        msg.blob_ranges[i + 1].data_end)
        ELSE out[k].is = "None"

-----------------------------------------------------------------------------
(* The worker protocol of stats (hungry_count.rs).  A send on a channel of *)
(* capacity 0 returns when the receiver takes the message: a send and the  *)
(* matching recv are one step.  A blob is the number of dense nodes its    *)
(* decoding counts.                                                        *)

num_threads == 4

\* The most blobs a map holds.
MaxBlobs == 5

BlobCounts == {1, 2}

Threads == 0..(num_threads - 1)

InitStats ==
    /\ \E blobs \in SeqsUpTo(BlobCounts, MaxBlobs) :
         main = [pc |-> "take", map |-> blobs, iter |-> 1, thread_id |-> 0,
                 stopped |-> 0, nodes |-> 0, handed |-> <<>>]
    /\ worker = [t \in Threads |-> [pc |-> "recv", blob |-> 0, count |-> 0]]
    /\ ret = [op |-> "stats", at |-> 0, fault |-> FALSE, is |-> "Running", val |-> <<>>]
    /\ FrameIdle
    /\ DecodeIdle
    /\ ElemIdle
    /\ IndexIdle
    /\ OffsetsIdle
    /\ ViewsIdle
    /\ WriterIdle
    /\ BuilderIdle
    /\ AgainIdle

Others == <<frameVars, decodeVars, elemVars, indexVars, offsetVars, viewVars, writerVars,
            builderVars, againVars>>

\* chans[t].send(WorkerMessage::DoBlob(mmap_blob)) met by request_rx.recv()
DoBlob(t) ==
    /\ worker[t].pc = "recv"
    /\ worker' = [worker EXCEPT ![t] = [pc |-> "decode", blob |-> main.iter, count |-> 0]]

\* The first loop of the main thread: iter.by_ref().take(num_threads), each
\* blob sent to the worker of its number.
TakeSend ==
    /\ main # <<>>
    /\ main.pc = "take"
    /\ main.thread_id < num_threads
    /\ main.iter <= Len(main.map)
    /\ DoBlob(main.thread_id)
    /\ main' = [main EXCEPT !.iter = @ + 1, !.thread_id = @ + 1,
                            !.handed = Append(@, [blob |-> main.iter,
                                                  thread_id |-> main.thread_id])]
    /\ UNCHANGED <<ret, Others>>

\* The first loop ends: num_threads blobs were taken or iter gave None.
TakeEnd ==
    /\ main # <<>>
    /\ main.pc = "take"
    /\ main.thread_id = num_threads \/ main.iter > Len(main.map)
    /\ main' = [main EXCEPT !.pc = "recv"]
    /\ UNCHANGED <<worker, ret, Others>>

\* A worker decodes its blob and counts the dense nodes.
Decode(t) ==
    /\ main # <<>>
    /\ worker[t].pc = "decode"
    /\ worker' = [worker EXCEPT ![t] = [@ EXCEPT !.pc = "send",
                                                 !.count = main.map[worker[t].blob]]]
    /\ UNCHANGED <<main, ret, Others>>

\* result_tx.send((thread_id, count)) met by result_rx.recv() of the main loop
Result(t) ==
    /\ main # <<>>
    /\ main.pc = "recv"
    /\ worker[t].pc = "send"
    /\ main' = [main EXCEPT !.pc = "reply", !.thread_id = t,
                            !.nodes = @ + worker[t].count]
    /\ worker' = [worker EXCEPT ![t] = [@ EXCEPT !.pc = "recv"]]
    /\ UNCHANGED <<ret, Others>>

\* iter.next() is Some: the blob goes to the worker that sent the result.
ReplyBlob ==
    /\ main # <<>>
    /\ main.pc = "reply"
    /\ main.iter <= Len(main.map)
    /\ DoBlob(main.thread_id)
    /\ main' = [main EXCEPT !.pc = "recv", !.iter = @ + 1,
                            !.handed = Append(@, [blob |-> main.iter,
                                                  thread_id |-> main.thread_id])]
    /\ UNCHANGED <<ret, Others>>

\* iter.next() is None: PleaseStop goes to that worker, which returns; the
\* main loop breaks when it has stopped num_threads workers.
ReplyStop ==
    /\ main # <<>>
    /\ main.pc = "reply"
    /\ main.iter > Len(main.map)
    /\ worker[main.thread_id].pc = "recv"
    /\ worker' = [worker EXCEPT ![main.thread_id] = [@ EXCEPT !.pc = "returned"]]
    /\ main' = [main EXCEPT !.stopped = @ + 1,
                            !.pc = IF main.stopped + 1 = num_threads THEN "done" ELSE "recv"]
    /\ ret' = IF main.stopped + 1 = num_threads
              THEN [ret EXCEPT !.is = "Ok", !.val = main.nodes]
              ELSE ret
    /\ UNCHANGED Others

NextStats ==
    \/ TakeSend
    \/ TakeEnd
    \/ \E t \in Threads : Decode(t)
    \/ \E t \in Threads : Result(t)
    \/ ReplyBlob
    \/ ReplyStop

SpecStats == InitStats /\ [][NextStats]_vars

\* Every thread that can take a step takes one: the main thread and each
\* worker run on threads of their own.
SpecStatsFair ==
    /\ SpecStats
    /\ WF_vars(TakeSend \/ TakeEnd \/ ReplyBlob \/ ReplyStop)
    /\ \A t \in Threads : WF_vars(Decode(t) \/ Result(t))

\* The main loop has ended with every worker returned, every blob handed to
\* one worker and nodes the sum of the counts of the blobs.
Finished ==
    /\ main.pc = "done"
    /\ \A t \in Threads : worker[t].pc = "returned"
    /\ Len(main.handed) = Len(main.map)
    /\ \A b \in 1..Len(main.map) :
         Cardinality({ k \in 1..Len(main.handed) : main.handed[k].blob = b }) = 1
    /\ main.nodes = Sum(main.map, Len(main.map))

\* C30: for every number of blobs in the map, zero and fewer than
\* num_threads included, the protocol terminates: every blob is sent to
\* exactly one worker, every worker receives PleaseStop and returns, and the
\* main loop exits with the sum of the counts of all blobs.
C30_StatsTerminates == <>Finished

====
